---- MODULE Spec2Model ----
(***************************************************************************)
(* A model of the lyft client library: the Client's access-token list      *)
(* (client.go), the request dispatch Client.do with addHeader/authorize,   *)
(* and the StatusError construction and classification (lyft.go).          *)
(*                                                                         *)
(* The specifications share the variables:                                 *)
(*   Spec      the Client: AddToken, RemoveToken and do                    *)
(*   SpecCred  AddToken and RemoveToken with the history of calls recorded *)
(*   SpecErr   a response coming back, NewStatusError, Bytes, Close        *)
(*   SpecRide  a 400 response to RequestRide / CancelRide and its error    *)
(*   SpecOAuth the two-legged and three-legged token flows                 *)
(*   SpecURL   AuthorizationURL                                            *)
(*   SpecHook  webhook.VerifySignature and Event.UnmarshalJSON             *)
(***************************************************************************)
EXTENDS Integers, Sequences, FiniteSets, TLC

VARIABLES
    c,       \* the Client: its fields
    hist,    \* the AddToken/RemoveToken calls made so far (history, SpecCred)
    last,    \* the last operation on the Client: its name, inputs, outputs
    rsp,     \* the response the transport returned (SpecErr)
    stream,  \* rsp.Body, the single-read stream of the response body
    err,     \* the error built from rsp
    got,     \* what StatusError.Bytes returned
    call     \* the last call of an OAuth, URL or webhook function: its
             \* name, arguments and results

clientVars == <<c, hist, last>>
errVars == <<rsp, stream, err, got>>

(***************************************************************************)
(* Bounds of the model.                                                    *)
(***************************************************************************)
\* number of AddToken/RemoveToken calls recorded in hist
MaxOps == 4
\* AddToken is not called on a list of this length (Tokens has 3 elements,
\* so the guard never stops the code as written)
MaxTokens == 4
\* number of reads of one response stream
MaxReads == 2

(***************************************************************************)
(* Inputs.                                                                 *)
(***************************************************************************)
Tokens == {"A", "B", "C"}

\* header keys as they are spelled in a map; http.Header methods canonicalise
HKeys == {"Content-Type", "content-type", "Authorization"}

NoHeader == [k \in HKeys |-> <<>>]

\* Client.Header values a caller sets: none, one canonical key, or keys
\* written into the map directly in two spellings
CHeaders ==
    { NoHeader,
      [NoHeader EXCEPT !["Content-Type"] = <<"text/plain">>],
      [NoHeader EXCEPT !["content-type"] = <<"text/plain">>,
                       !["Content-Type"] = <<"text/xml", "text/plain">>] }

\* the header of a request when it reaches do: http.NewRequest's empty header,
\* or the Content-Type the endpoint method has Set (rides.go:142)
ReqHeaders ==
    { NoHeader,
      [NoHeader EXCEPT !["Content-Type"] = <<"application/json">>] }

\* what the server answers to a request bearing each token
DoStatuses == {200, 401}

\* the transport for one call of do: it fails, or it answers by the token
Transports ==
    { [err |-> TRUE, statusOf |-> [t \in Tokens |-> 0]] }
    \cup { [err |-> FALSE, statusOf |-> f] : f \in [Tokens -> DoStatuses] }

(***************************************************************************)
(* client.go: the access-token list.                                       *)
(***************************************************************************)
\* indexOf: the 0-based index of the first element equal to target, or -1
indexOf(v, target) ==
    IF \E i \in 1..Len(v) : v[i] = target
    THEN (CHOOSE i \in 1..Len(v) :
              /\ v[i] = target
              /\ \A j \in 1..(i - 1) : v[j] # target) - 1
    ELSE -1

\* a plausible slip: the membership test is dropped
AddTokenNoCheck(toks, t) == Append(toks, t)

\* Client.AddToken on the list toks
AddToken(toks, t) ==
    IF indexOf(toks, t) = -1 THEN Append(toks, t) ELSE toks

\* a plausible slip: the tail is not shifted left, the last element is dropped
RemoveTokenNoCopy(toks, t) ==
    IF indexOf(toks, t) # -1 THEN SubSeq(toks, 1, Len(toks) - 1) ELSE toks

\* Client.RemoveToken on the list toks. The body names the index i and the
\* slice a; they are the idx and c.AccessTokens of the enclosing lines.
\*   copy(a[i:], a[i+1:]) ; a[len(a)-1] = "" ; a = a[:len(a)-1]
RemoveToken(toks, t) ==
    LET idx == indexOf(toks, t)
        n == Len(toks)
        copied == [k \in 1..n |->
                      IF k >= idx + 1 /\ k < n THEN toks[k + 1] ELSE toks[k]]
        cleared == [copied EXCEPT ![n] = ""]
    IN IF idx # -1 THEN SubSeq(cleared, 1, n - 1) ELSE toks

(***************************************************************************)
(* lyft.go: headers and dispatch.                                          *)
(***************************************************************************)
\* textproto.CanonicalMIMEHeaderKey on the keys of the model
CanonicalKey(k) ==
    IF k = "content-type" THEN "Content-Type"
    ELSE IF k = "error" THEN "Error"
    ELSE k

\* a plausible slip: Set instead of Add
HeaderSet(h, key, v) == [h EXCEPT ![CanonicalKey(key)] = <<v>>]

\* http.Header.Add: append v to the values under the canonical key
HeaderAdd(h, key, v) == [h EXCEPT ![CanonicalKey(key)] = Append(@, v)]

\* the inner loop of addHeader: for _, v := range values { h.Add(key, v) }
RECURSIVE addValues(_, _, _)
addValues(h, key, values) ==
    IF values = <<>> THEN h
    ELSE addValues(HeaderAdd(h, key, Head(values)), key, Tail(values))

\* Client.addHeader: range over c.Header in the order the map yields its keys
RECURSIVE addHeader(_, _, _)
addHeader(cHeader, h, order) ==
    IF order = <<>> THEN h
    ELSE addHeader(cHeader,
                   addValues(h, Head(order), cHeader[Head(order)]),
                   Tail(order))

\* the orders in which ranging over the map cHeader can yield its keys
KeyOrders(cHeader) ==
    LET present == {k \in HKeys : cHeader[k] # <<>>}
        n == Cardinality(present)
    IN { o \in [1..n -> present] : \A i, j \in 1..n : i # j => o[i] # o[j] }

Bearer(t) == "Bearer " \o t

\* Client.authorize
authorize(cl, h) == HeaderAdd(h, "Authorization", Bearer(cl.AccessToken))

\* the token the server sees: the first Authorization value of the request
BearerToken(h) == CHOOSE t \in Tokens : Bearer(t) = h["Authorization"][1]

NoResponse == [StatusCode |-> 0]

\* a plausible slip: a token answered with 401 is dropped from the list
doDropping(cl, r, rt, order) ==
    LET h == authorize(cl, addHeader(cl.Header, r, order))
        tok == BearerToken(h)
    IN [c |-> IF ~rt.err /\ rt.statusOf[tok] = 401
              THEN [cl EXCEPT !.AccessTokens = RemoveToken(@, tok)] ELSE cl,
        r |-> h, attempts |-> <<tok>>,
        rsp |-> IF rt.err THEN NoResponse ELSE [StatusCode |-> rt.statusOf[tok]],
        err |-> rt.err, panicked |-> cl.debug /\ rt.err]

\* Client.do on the request header r, with the transport answering by rt:
\* addHeader, authorize, one client.Do(r), and with debug the two dumps;
\* httputil.DumpResponse dereferences rsp, which is nil when client.Do failed
do(cl, r, rt, order) ==
    LET h == authorize(cl, addHeader(cl.Header, r, order))
        tok == BearerToken(h)
    IN [c |-> cl, r |-> h, attempts |-> <<tok>>,
        rsp |-> IF rt.err THEN NoResponse ELSE [StatusCode |-> rt.statusOf[tok]],
        err |-> rt.err, panicked |-> cl.debug /\ rt.err]

(***************************************************************************)
(* The Client's state machine.                                             *)
(***************************************************************************)
InitClient ==
    /\ c \in [AccessTokens : {<<>>}, AccessToken : Tokens,
              Header : CHeaders, debug : BOOLEAN]
    /\ hist = <<>>
    /\ last = [op |-> "new"]

AddTokenAct ==
    \E t \in Tokens :
        /\ Len(c.AccessTokens) < MaxTokens
        /\ c' = [c EXCEPT !.AccessTokens = AddToken(@, t)]
        /\ last' = [op |-> "AddToken", t |-> t, pre |-> c]

RemoveTokenAct ==
    \E t \in Tokens :
        /\ c' = [c EXCEPT !.AccessTokens = RemoveToken(@, t)]
        /\ last' = [op |-> "RemoveToken", t |-> t, pre |-> c]

doAct ==
    \E r \in ReqHeaders, rt \in Transports, order \in KeyOrders(c.Header) :
        LET out == do(c, r, rt, order)
        IN /\ c' = out.c
           /\ last' = [op |-> "do", pre |-> c, req |-> r, rt |-> rt, out |-> out]
           /\ UNCHANGED hist

vars == <<c, hist, last, rsp, stream, err, got, call>>

Next ==
    \/ AddTokenAct /\ UNCHANGED <<hist, errVars, call>>
    \/ RemoveTokenAct /\ UNCHANGED <<hist, errVars, call>>
    \/ doAct /\ UNCHANGED <<errVars, call>>

\* the same two mutators, each call appended to the history
AddTokenCall ==
    /\ Len(hist) < MaxOps
    /\ AddTokenAct
    /\ hist' = Append(hist, <<"add", last'.t>>)
    /\ UNCHANGED <<errVars, call>>

RemoveTokenCall ==
    /\ Len(hist) < MaxOps
    /\ RemoveTokenAct
    /\ hist' = Append(hist, <<"remove", last'.t>>)
    /\ UNCHANGED <<errVars, call>>

NextCred == AddTokenCall \/ RemoveTokenCall

(***************************************************************************)
(* Responses.                                                              *)
(***************************************************************************)
\* the keys of a response header that spell the field "error": the standard
\* transport stores the canonical key, a RoundTripper may store any spelling
RKeys == {"error", "Error"}

NoRHeader == [k \in RKeys |-> <<>>]

RHeaders ==
    { NoRHeader,
      [NoRHeader EXCEPT !["error"] = <<"">>],
      [NoRHeader EXCEPT !["error"] = <<"token_expired">>],
      [NoRHeader EXCEPT !["error"] = <<"insufficient_scope", "token_expired">>],
      [NoRHeader EXCEPT !["Error"] = <<"token_expired">>] }

\* Possible values for the Reason field in StatusError
InvalidToken == "invalid_token"
TokenExpired == "token_expired"

\* the statuses of the responses that reach NewStatusError
ErrStatuses == {400, 401, 429, 500}

\* a member of a JSON object: missing, a string, a number or a list
\* (v holds the string as a one-element list, or the list)
Absent == [tag |-> "absent", v |-> <<>>]
Str(x) == [tag |-> "string", v |-> <<x>>]
Num == [tag |-> "number", v |-> <<>>]
List(x) == [tag |-> "list", v |-> x]

\* one error_detail list, []map[string]string, each map written as a string
SomeDetails == << "ride_type: invalid" >>

\* the bytes of a body, by what they spell: nothing, text that is not JSON,
\* a JSON array, or a JSON object with the three members of errType
EmptyBytes ==
    [syntax |-> "empty", error |-> Absent, error_description |-> Absent,
     error_detail |-> Absent]

Bodies ==
    [syntax : {"empty", "text", "array"}, error : {Absent},
     error_description : {Absent}, error_detail : {Absent}]
    \cup
    [syntax : {"object"},
     error : {Absent, Str(InvalidToken), Str(TokenExpired), Num},
     error_description : {Absent, Str("the token is not valid"), Num},
     error_detail : {Absent, List(SomeDetails), Str("oops")}]

Responses == [StatusCode : ErrStatuses, Header : RHeaders, Body : Bodies]

NoRsp == [StatusCode |-> 0, Header |-> NoRHeader, Body |-> EmptyBytes]

\* an unread, open stream
FreshStream ==
    [consumed |-> FALSE, closed |-> FALSE, reads |-> 0, closes |-> 0,
     lateReads |-> 0]

\* rsp.Body.Close(), counted
Close(st) == [st EXCEPT !.closed = TRUE, !.closes = @ + 1]

\* reading the stream st of response r to its end (bytes.Buffer.ReadFrom,
\* ioutil.ReadAll): the body the first time, nothing once it has been read or
\* closed; read errors are ignored by both callers
ReadToEnd(r, st) ==
    [bytes |-> IF st.consumed \/ st.closed THEN EmptyBytes ELSE r.Body,
     stream |-> [st EXCEPT !.consumed = TRUE, !.reads = @ + 1,
                           !.lateReads = IF st.closed THEN @ + 1 ELSE @]]

\* a bytes.Buffer: what was written to it and whether it has been read out
Buffer(b) == [data |-> b, drained |-> FALSE]

\* bytes.Buffer.Bytes: the unread portion
BufferBytes(buf) == IF buf.drained THEN EmptyBytes ELSE buf.data

(***************************************************************************)
(* lyft.go: the error taxonomy.                                            *)
(***************************************************************************)
ZeroErrType == [Slug |-> "", Details |-> <<>>, Description |-> ""]

\* json.Decoder.Decode into errType: EOF on no bytes, a syntax error on text,
\* a type error on a value that is not an object; in an object a member of
\* the wrong type is skipped, the others are stored, and the type error is
\* returned at the end
Decode(b) ==
    IF b.syntax # "object" THEN [failed |-> TRUE, val |-> ZeroErrType]
    ELSE [failed |-> \/ b.error.tag \notin {"absent", "string"}
                     \/ b.error_description.tag \notin {"absent", "string"}
                     \/ b.error_detail.tag \notin {"absent", "list"},
          val |-> [Slug |-> IF b.error.tag = "string" THEN b.error.v[1] ELSE "",
                   Details |-> IF b.error_detail.tag = "list"
                               THEN b.error_detail.v ELSE <<>>,
                   Description |-> IF b.error_description.tag = "string"
                                   THEN b.error_description.v[1] ELSE ""]]

\* http.Header.Get: the first value under the canonical key
HeaderGet(h, key) ==
    IF Len(h[CanonicalKey(key)]) = 0 THEN "" ELSE h[CanonicalKey(key)][1]

NoError == [kind |-> "none"]
TransportError == [kind |-> "transport"]

\* a plausible variant: Details and Description only from a clean decode
NewStatusErrorStrict(r, st) ==
    LET rd == ReadToEnd(r, st)
        buf == Buffer(rd.bytes)
        dec == Decode(BufferBytes(buf))
        v == r.Header["error"]
        e == IF Len(v) # 0 THEN v[1]
             ELSE IF ~dec.failed THEN dec.val.Slug ELSE ""
    IN [err |-> [kind |-> "StatusError",
                 StatusCode |-> r.StatusCode,
                 ResponseBody |-> buf,
                 Reason |-> e,
                 Details |-> IF dec.failed THEN <<>> ELSE dec.val.Details,
                 Description |-> IF dec.failed THEN "" ELSE dec.val.Description],
        stream |-> rd.stream]

\* NewStatusError of lyft.go: the body is read into buf, decoded from a second
\* buffer over the same bytes; Reason is the first value under the key "error"
\* as spelled, else the decoded slug when the decode returned no error
NewStatusError(r, st) ==
    LET rd == ReadToEnd(r, st)
        buf == Buffer(rd.bytes)
        dec == Decode(BufferBytes(buf))
        v == r.Header["error"]
        e == IF Len(v) # 0 THEN v[1]
             ELSE IF ~dec.failed THEN dec.val.Slug ELSE ""
    IN [err |-> [kind |-> "StatusError",
                 StatusCode |-> r.StatusCode,
                 ResponseBody |-> buf,
                 Reason |-> e,
                 Details |-> dec.val.Details,
                 Description |-> dec.val.Description],
        stream |-> rd.stream]

\* NewStatusError of client.go: the error keeps the response's stream, unread
NewStatusErrorBody(r, st) ==
    [err |-> [kind |-> "StatusErrorBody",
              StatusCode |-> r.StatusCode,
              Reason |-> HeaderGet(r.Header, "error"),
              Body |-> "rsp.Body"],
     stream |-> st]

\* StatusError.Bytes of client.go: ioutil.ReadAll(s.Body), then s.Body.Close()
Bytes(r, st) ==
    LET rd == ReadToEnd(r, st)
    IN [bytes |-> rd.bytes, stream |-> Close(rd.stream)]

\* a plausible slip: the comparison is not an equality
IsRateLimitAtLeast(e) ==
    IF e.kind = "StatusError" THEN e.StatusCode >= 429 ELSE FALSE

\* IsRateLimit
IsRateLimit(e) ==
    IF e.kind = "StatusError" THEN e.StatusCode = 429 ELSE FALSE

\* a plausible slip: the test of the body is left out
IsTokenExpiredAny401(e) ==
    IF e.kind = "StatusError"
    THEN e.StatusCode = 401 \/ e.Reason = TokenExpired
    ELSE FALSE

\* IsTokenExpired
IsTokenExpired(e) ==
    IF e.kind = "StatusError"
    THEN \/ e.StatusCode = 401 /\ BufferBytes(e.ResponseBody).syntax = "empty"
         \/ e.Reason = TokenExpired
    ELSE FALSE

(***************************************************************************)
(* A response coming back and the error built from it.                     *)
(***************************************************************************)
InitErr ==
    /\ rsp = NoRsp
    /\ stream = FreshStream
    /\ err = NoError
    /\ got = <<>>

\* client.Do returns a response with an error status
Respond ==
    /\ rsp = NoRsp /\ err = NoError
    /\ rsp' \in Responses
    /\ stream' = FreshStream
    /\ UNCHANGED <<err, got>>

\* client.Do returns an error and no response
TransportFail ==
    /\ rsp = NoRsp /\ err = NoError
    /\ err' = TransportError
    /\ UNCHANGED <<rsp, stream, got>>

NewStatusErrorAct ==
    /\ rsp # NoRsp /\ err = NoError
    /\ LET out == NewStatusError(rsp, stream)
       IN err' = out.err /\ stream' = out.stream
    /\ UNCHANGED <<rsp, got>>

NewStatusErrorBodyAct ==
    /\ rsp # NoRsp /\ err = NoError
    /\ LET out == NewStatusErrorBody(rsp, stream)
       IN err' = out.err /\ stream' = out.stream
    /\ UNCHANGED <<rsp, got>>

\* the caller of NewStatusError returns: its deferred rsp.Body.Close() runs
CloseAct ==
    /\ err \notin {NoError, TransportError}
    /\ ~stream.closed
    /\ stream' = Close(stream)
    /\ UNCHANGED <<rsp, err, got>>

\* the holder of a client.go StatusError calls Bytes
BytesAct ==
    /\ err.kind = "StatusErrorBody"
    /\ stream.reads < MaxReads
    /\ LET out == Bytes(rsp, stream)
       IN got' = Append(got, out.bytes) /\ stream' = out.stream
    /\ UNCHANGED <<rsp, err>>

NextErr ==
    \/ Respond /\ UNCHANGED <<clientVars, call>>
    \/ TransportFail /\ UNCHANGED <<clientVars, call>>
    \/ NewStatusErrorAct /\ UNCHANGED <<clientVars, call>>
    \/ NewStatusErrorBodyAct /\ UNCHANGED <<clientVars, call>>
    \/ CloseAct /\ UNCHANGED <<clientVars, call>>
    \/ BytesAct /\ UNCHANGED <<clientVars, call>>

(***************************************************************************)
(* The specifications.                                                     *)
(***************************************************************************)
NoCall == [op |-> "none"]

Init == InitClient /\ InitErr /\ call = NoCall

Spec == Init /\ [][Next]_vars

SpecCred == Init /\ [][NextCred]_vars

\* the Client plays no part in the error taxonomy: one Client is enough
InitErrOnly ==
    /\ Init
    /\ c.AccessToken = "A" /\ c.Header = NoHeader /\ ~c.debug

SpecErr == InitErrOnly /\ [][NextErr]_vars

(***************************************************************************)
(* Helpers of the properties.                                              *)
(***************************************************************************)
Elems(s) == {s[i] : i \in 1..Len(s)}

NoDuplicate(s) == \A i, j \in 1..Len(s) : i # j => s[i] # s[j]

IsPrefix(s, t) == Len(s) <= Len(t) /\ SubSeq(t, 1, Len(s)) = s

Without(s, t) == SelectSeq(s, LAMBDA x : x # t)

\* the tokens whose last call in the history h is an add
Live(h) ==
    {t \in Tokens :
        \E i \in 1..Len(h) :
            /\ h[i] = <<"add", t>>
            /\ \A j \in (i + 1)..Len(h) : h[j] # <<"remove", t>>}

\* the call that inserted the live token t: its first add not followed by a
\* remove of t
InsertedAt(h, t) ==
    CHOOSE i \in 1..Len(h) :
        /\ h[i] = <<"add", t>>
        /\ \A j \in (i + 1)..Len(h) : h[j] # <<"remove", t>>
        /\ \A k \in 1..(i - 1) :
              h[k] = <<"add", t>> =>
                  \E j \in (k + 1)..Len(h) : h[j] = <<"remove", t>>

\* the number of tokens of toks that a sequential trial would attempt: up to
\* and including the first one not answered with 401, or all of them
RECURSIVE TrialLength(_, _)
TrialLength(toks, statusOf) ==
    IF toks = <<>> THEN 0
    ELSE IF statusOf[Head(toks)] # 401 \/ Len(toks) = 1 THEN 1
    ELSE 1 + TrialLength(Tail(toks), statusOf)

\* C1: with tokens [t1..tn], n >= 2, one send tries t1, t2, ... in that order,
\* stops at the first response that is not 401 and returns it; if all are 401
\* it returns the last one after n attempts.
C1_SequentialTrial ==
    (last.op = "do" /\ ~last.out.err /\ Len(last.pre.AccessTokens) >= 2) =>
        LET toks == last.pre.AccessTokens
            k == TrialLength(toks, last.rt.statusOf)
        IN /\ last.out.attempts = SubSeq(toks, 1, k)
           /\ last.out.rsp.StatusCode = last.rt.statusOf[toks[k]]

\* C2: AddToken(t) after AddToken(t) leaves the list as the first call left
\* it, and RemoveToken(t) of an absent t leaves the list as it was.
C2_AddIdempotentRemoveAbsentNoop ==
    /\ (/\ last.op = "AddToken"
        /\ Len(hist) >= 2
        /\ hist[Len(hist) - 1] = <<"add", last.t>>)
       => c.AccessTokens = last.pre.AccessTokens
    /\ (last.op = "RemoveToken" /\ last.t \notin Elems(last.pre.AccessTokens))
       => c.AccessTokens = last.pre.AccessTokens
    /\ \A t \in Tokens :
          AddToken(AddToken(c.AccessTokens, t), t) = AddToken(c.AccessTokens, t)

C2_Witness ==
    /\ last.op = "AddToken"
    /\ Len(hist) >= 3
    /\ hist[Len(hist) - 1] = <<"add", last.t>>
    /\ hist[1] = <<"remove", "C">>
    /\ Len(c.AccessTokens) = 1

C4_DoKeepsTokens ==
    /\ last.op = "do" => c = last.pre
    /\ (last.op # "new" /\ c.AccessTokens # last.pre.AccessTokens)
       => last.op \in {"AddToken", "RemoveToken"}

C4_Witness ==
    /\ last.op = "do"
    /\ Len(c.AccessTokens) >= 2
    /\ ~last.out.err
    /\ last.out.rsp.StatusCode = 401

\* the number of values that addHeader and authorize add under the
\* canonical key K
AddedUnder(cl, K) ==
    LET keys == {k \in HKeys : CanonicalKey(k) = K}
        RECURSIVE Sum(_)
        Sum(S) == IF S = {} THEN 0
                  ELSE LET k == CHOOSE x \in S : TRUE
                       IN Len(cl.Header[k]) + Sum(S \ {k})
    IN Sum(keys) + (IF K = "Authorization" THEN 1 ELSE 0)

\* C5: do adds every value of Client.Header to the request and removes or
\* replaces none: what was on the request is still there, in its order, the
\* values of Client.Header follow it, and Client.Header itself is unchanged.
C5_HeadersAdditive ==
    last.op = "do" =>
        /\ \A k \in HKeys : IsPrefix(last.req[k], last.out.r[k])
        /\ \A k \in HKeys :
              Elems(last.pre.Header[k]) \subseteq Elems(last.out.r[CanonicalKey(k)])
        /\ \A k \in HKeys :
              Len(last.out.r[k]) = Len(last.req[k])
                  + (IF CanonicalKey(k) = k THEN AddedUnder(last.pre, k) ELSE 0)
        /\ c.Header = last.pre.Header

C5_Witness ==
    /\ last.op = "do"
    /\ last.req["Content-Type"] = <<"application/json">>
    /\ last.pre.Header["content-type"] # <<>>
    /\ last.pre.Header["Content-Type"] # <<>>
    /\ Len(last.out.r["Content-Type"]) = 4

\* the value of the response's error header, under either spelling of the key
ErrorHeader(h) ==
    IF h["error"] # <<>> THEN h["error"][1]
    ELSE IF h["Error"] # <<>> THEN h["Error"][1]
    ELSE ""

\* the members of a body that is a JSON object, "" or <<>> when the body is
\* not one or the member is missing or of another type
BodyDescription(b) ==
    IF b.syntax = "object" /\ b.error_description.tag = "string"
    THEN b.error_description.v[1] ELSE ""

BodyDetails(b) ==
    IF b.syntax = "object" /\ b.error_detail.tag = "list"
    THEN b.error_detail.v ELSE <<>>

\* C6: Reason is the response's error header value when that header is
\* present and non-empty, otherwise the error slug decoded from the JSON
\* body, otherwise empty.
C6_ReasonHeaderThenBody ==
    err.kind = "StatusError" =>
        err.Reason =
            IF ErrorHeader(rsp.Header) # "" THEN ErrorHeader(rsp.Header)
            ELSE IF ~Decode(rsp.Body).failed THEN Decode(rsp.Body).val.Slug
            ELSE ""

\* C7: IsTokenExpired(e) is true iff the status is 401 and the captured body
\* is empty, or the reason is token_expired; it is false for 401 with a body
\* and another reason, and false for an error that is not a StatusError.
C7_TokenExpiredIff ==
    /\ err.kind = "StatusError" =>
          /\ IsTokenExpired(err) <=>
                 \/ rsp.StatusCode = 401 /\ rsp.Body = EmptyBytes
                 \/ err.Reason = TokenExpired
          /\ (/\ rsp.StatusCode = 401
              /\ rsp.Body # EmptyBytes
              /\ err.Reason # TokenExpired) => ~IsTokenExpired(err)
    /\ err.kind = "transport" => ~IsTokenExpired(err)

C7_Witness ==
    /\ err.kind = "StatusError"
    /\ rsp.StatusCode = 401
    /\ rsp.Body.syntax = "object"
    /\ err.Reason = InvalidToken
    /\ ~IsTokenExpired(err)

\* C8: for an error built from a response, IsRateLimit is true iff the
\* response's status is 429, whatever the body, the reason and the headers,
\* and also once the response body has been closed.
C8_RateLimitIff429 ==
    err.kind = "StatusError" => (IsRateLimit(err) <=> rsp.StatusCode = 429)

C8_Witness ==
    /\ err.kind = "StatusError"
    /\ stream.closed
    /\ rsp.StatusCode = 429
    /\ rsp.Body.syntax = "text"
    /\ IsRateLimit(err)

\* the bytes held in a buffer the error owns, if it owns one
OwnedBytes(e) ==
    IF e.kind = "StatusError" THEN <<BufferBytes(e.ResponseBody)>> ELSE <<>>

\* C9: once a StatusError has been constructed the response stream has been
\* read exactly once, to its end, into a buffer the error owns that holds the
\* whole body, and nothing reads the stream afterwards.
C9_BodyReadOnceAtConstruction ==
    err.kind \in {"StatusError", "StatusErrorBody"} =>
        /\ stream.reads = 1
        /\ stream.consumed
        /\ OwnedBytes(err) = <<rsp.Body>>

\* C10 as stated: a non-nil error with the response's status and body;
\* Details and Description are from the body JSON and empty when the body
\* does not decode.
C10_EmptyWhenDecodeFails ==
    err.kind = "StatusError" =>
        /\ err.StatusCode = rsp.StatusCode
        /\ BufferBytes(err.ResponseBody) = rsp.Body
        /\ Decode(rsp.Body).failed =>
               err.Details = <<>> /\ err.Description = ""
        /\ ~Decode(rsp.Body).failed =>
               /\ err.Details = BodyDetails(rsp.Body)
               /\ err.Description = BodyDescription(rsp.Body)

\* C10 amended: NewStatusError returns a non-nil error with the response's
\* status and body for every response; Details and Description are the
\* error_detail and error_description members of the body JSON object that
\* have the expected type, also when another member makes the decode fail,
\* and are empty when the body is empty or is not a JSON object.
C10_DetailsFromBodyMembers ==
    err.kind = "StatusError" =>
        /\ err.StatusCode = rsp.StatusCode
        /\ BufferBytes(err.ResponseBody) = rsp.Body
        /\ err.Details = BodyDetails(rsp.Body)
        /\ err.Description = BodyDescription(rsp.Body)
        /\ rsp.Body.syntax # "object" =>
               err.Details = <<>> /\ err.Description = ""

C10_Witness ==
    /\ err.kind = "StatusError"
    /\ rsp.Body.syntax = "object"
    /\ Decode(rsp.Body).failed
    /\ err.Description # ""
    /\ err.Details = <<>>

(***************************************************************************)
(* rides.go: the errors of RequestRide and CancelRide.                     *)
(***************************************************************************)
\* a JSON number spelled with the digits d
NumOf(d) == [tag |-> "number", v |-> <<d>>]

\* the bodies of a 400 response to RequestRide or CancelRide: the members of
\* errType, of costTokenInfo (cost_token, token_duration as a string) and of
\* aux (amount, currency, token, token_duration as a number)
RideBodies ==
    [syntax : {"empty", "text", "array"}, error : {Absent},
     error_description : {Absent}, error_detail : {Absent},
     cost_token : {Absent}, token_duration : {Absent}, amount : {Absent},
     currency : {Absent}, token : {Absent}]
    \cup
    [syntax : {"object"},
     error : {Absent, Str(TokenExpired)},
     error_description : {Absent, Str("the token is not valid")},
     error_detail : {Absent},
     cost_token : {Absent, Str("ct1"), Num},
     token_duration : {Absent, Str("60"), Str("soon"), NumOf("60")},
     amount : {Absent, NumOf("5")},
     currency : {Absent, Str("USD")},
     token : {Absent, Str("cancel1")}]

RideStatuses == {400, 429}

RideResponses ==
    [StatusCode : RideStatuses, Header : RHeaders, Body : RideBodies]

\* the decimal numerals of the inputs and their values
IntOf ==
    [d \in {"5", "60", "3600"} |->
        CASE d = "5" -> 5 [] d = "60" -> 60 [] d = "3600" -> 3600]

\* strconv.ParseInt(s, 10, 64): an error on "" and on text that is no numeral
ParseInt(s) ==
    IF s \in DOMAIN IntOf THEN [failed |-> FALSE, i |-> IntOf[s]]
    ELSE [failed |-> TRUE, i |-> 0]

\* a time.Duration, a count of nanoseconds, kept as whole seconds and the
\* nanoseconds left over (the counts of the inputs stay below 2^31)
Duration(n) == [sec |-> n \div 1000000000, nsec |-> n % 1000000000]

\* time.Second * d
TimesSecond(d) == [sec |-> d.sec * 1000000000 + d.nsec, nsec |-> 0]

ZeroCostTokenInfo == [CostToken |-> "", TokenDuration |-> Duration(0)]

\* CostTokenInfo.UnmarshalJSON: json.Unmarshal into aux (an error on a value
\* that is no object or on a member of another type), then ParseInt of
\* aux.TokenDuration, "" when the member is missing; of the six fields the
\* model keeps CostToken and TokenDuration
CostTokenInfo_UnmarshalJSON(b) ==
    IF b.syntax # "object"
    THEN [failed |-> TRUE, val |-> ZeroCostTokenInfo]
    ELSE LET auxCostToken ==
                 IF b.cost_token.tag = "string" THEN b.cost_token.v[1] ELSE ""
             auxTokenDuration ==
                 IF b.token_duration.tag = "string"
                 THEN b.token_duration.v[1] ELSE ""
             typeErr == \/ b.cost_token.tag \notin {"absent", "string"}
                        \/ b.token_duration.tag \notin {"absent", "string"}
             p == ParseInt(auxTokenDuration)
         IN IF typeErr THEN [failed |-> TRUE, val |-> ZeroCostTokenInfo]
            ELSE IF p.failed
            THEN [failed |-> TRUE,
                  val |-> [ZeroCostTokenInfo EXCEPT !.CostToken = auxCostToken]]
            ELSE [failed |-> FALSE,
                  val |-> [CostToken |-> auxCostToken,
                           TokenDuration |-> TimesSecond(Duration(p.i))]]

\* newCostTokenInfo: json.Decoder.Decode, EOF on no bytes and a syntax error
\* on text before UnmarshalJSON is reached
newCostTokenInfo(buf) ==
    LET b == BufferBytes(buf)
    IN IF b.syntax \in {"empty", "text"}
       THEN [failed |-> TRUE, val |-> ZeroCostTokenInfo]
       ELSE CostTokenInfo_UnmarshalJSON(b)

\* newErrorInfo(buf, header): Reason from the error header, else from the
\* body's error member; Details and Description from the body
newErrorInfo(buf, h) ==
    LET dec == Decode(BufferBytes(buf))
        v == IF h["error"] # <<>> THEN h["error"][1]
             ELSE IF h["Error"] # <<>> THEN h["Error"][1] ELSE ""
    IN [Reason |-> IF v # "" THEN v ELSE dec.val.Slug,
        Details |-> dec.val.Details,
        Description |-> dec.val.Description]

\* a plausible slip: the decode's error is not looked at
newRideRequestErrorAlways(r, st) ==
    LET rd == ReadToEnd(r, st)
        eiBuf == Buffer(rd.bytes)
        ciBuf == Buffer(BufferBytes(eiBuf))
        ei == newErrorInfo(eiBuf, r.Header)
        ci == newCostTokenInfo(ciBuf)
    IN [err |-> [kind |-> "RideRequestError",
                 Reason |-> ei.Reason,
                 Details |-> ei.Details,
                 Description |-> ei.Description,
                 Cost |-> <<ci.val>>],
        stream |-> rd.stream]

\* newRideRequestError: the body is read into eiBuf, ciBuf is a second buffer
\* over the same bytes; Cost is nil (<<>>) when newCostTokenInfo fails
newRideRequestError(r, st) ==
    LET rd == ReadToEnd(r, st)
        eiBuf == Buffer(rd.bytes)
        ciBuf == Buffer(BufferBytes(eiBuf))
        ei == newErrorInfo(eiBuf, r.Header)
        ci == newCostTokenInfo(ciBuf)
    IN [err |-> [kind |-> "RideRequestError",
                 Reason |-> ei.Reason,
                 Details |-> ei.Details,
                 Description |-> ei.Description,
                 Cost |-> IF ~ci.failed THEN <<ci.val>> ELSE <<>>],
        stream |-> rd.stream]

\* the decode of newCancelRideError into aux: amount a number, currency and
\* token strings, token_duration a number
DecodeAux(b) ==
    IF b.syntax # "object"
    THEN [failed |-> TRUE, Amount |-> "0", Currency |-> "", Token |-> "",
          TokenDuration |-> 0]
    ELSE [failed |-> \/ b.amount.tag \notin {"absent", "number"}
                     \/ b.currency.tag \notin {"absent", "string"}
                     \/ b.token.tag \notin {"absent", "string"}
                     \/ b.token_duration.tag \notin {"absent", "number"},
          Amount |-> IF b.amount.tag = "number" /\ b.amount.v # <<>>
                     THEN b.amount.v[1] ELSE "0",
          Currency |-> IF b.currency.tag = "string"
                       THEN b.currency.v[1] ELSE "",
          Token |-> IF b.token.tag = "string" THEN b.token.v[1] ELSE "",
          TokenDuration |->
              IF b.token_duration.tag = "number" /\ b.token_duration.v # <<>>
              THEN ParseInt(b.token_duration.v[1]).i ELSE 0]

\* newCancelRideError: the four fields are set only when the decode of the
\* second buffer returned no error
newCancelRideError(r, st) ==
    LET rd == ReadToEnd(r, st)
        eiBuf == Buffer(rd.bytes)
        otherBuf == Buffer(BufferBytes(eiBuf))
        ei == newErrorInfo(eiBuf, r.Header)
        a == DecodeAux(BufferBytes(otherBuf))
    IN [err |-> [kind |-> "CancelRideError",
                 Reason |-> ei.Reason,
                 Details |-> ei.Details,
                 Description |-> ei.Description,
                 Amount |-> IF ~a.failed THEN a.Amount ELSE "0",
                 Currency |-> IF ~a.failed THEN a.Currency ELSE "",
                 Token |-> IF ~a.failed THEN a.Token ELSE "",
                 TokenDuration |->
                     IF ~a.failed THEN TimesSecond(Duration(a.TokenDuration))
                     ELSE Duration(0)],
        stream |-> rd.stream]

\* strconv's decimal spelling of the status codes in use
Itoa == [n \in ErrStatuses |->
            CASE n = 400 -> "400" [] n = 401 -> "401"
              [] n = 429 -> "429" [] n = 500 -> "500"]

\* StatusError.Error
StatusError_Error(e) ==
    IF e.Reason # "" THEN e.Reason \o ": status code: " \o Itoa[e.StatusCode]
    ELSE "status code: " \o Itoa[e.StatusCode]

\* RideRequestError.Error
RideRequestError_Error(e) ==
    IF e.Reason # "" /\ e.Description # ""
    THEN e.Reason \o ": " \o e.Description
    ELSE IF e.Reason # "" THEN e.Reason
    ELSE IF e.Description # "" THEN e.Description
    ELSE "<ride request error>"

\* CancelRideError.Error
CancelRideError_Error(e) ==
    IF e.Reason # "" /\ e.Description # ""
    THEN e.Reason \o ": " \o e.Description
    ELSE IF e.Reason # "" THEN e.Reason
    ELSE IF e.Description # "" THEN e.Description
    ELSE "<cancel ride error>"

\* client.do returns a response that RequestRide or CancelRide turns into an
\* error
RespondRide ==
    /\ rsp = NoRsp /\ err = NoError
    /\ rsp' \in RideResponses
    /\ stream' = FreshStream
    /\ UNCHANGED <<err, got>>

\* RequestRide on that response: 400 gives a RideRequestError, any other
\* status a StatusError; the deferred Close runs on return
RequestRide ==
    /\ rsp # NoRsp /\ err = NoError
    /\ LET res == IF rsp.StatusCode = 400
                  THEN newRideRequestError(rsp, stream)
                  ELSE NewStatusError(rsp, stream)
       IN /\ err' = res.err
          /\ stream' = Close(res.stream)
    /\ UNCHANGED <<rsp, got>>

\* CancelRide on that response: 400 gives a CancelRideError
CancelRide ==
    /\ rsp # NoRsp /\ err = NoError
    /\ LET res == IF rsp.StatusCode = 400
                  THEN newCancelRideError(rsp, stream)
                  ELSE NewStatusError(rsp, stream)
       IN /\ err' = res.err
          /\ stream' = Close(res.stream)
    /\ UNCHANGED <<rsp, got>>

NextRide ==
    \/ RespondRide /\ UNCHANGED <<clientVars, call>>
    \/ RequestRide /\ UNCHANGED <<clientVars, call>>
    \/ CancelRide /\ UNCHANGED <<clientVars, call>>

SpecRide == InitErrOnly /\ [][NextRide]_vars

(***************************************************************************)
(* Properties of the ride errors.                                          *)
(***************************************************************************)
Specialised == {"RideRequestError", "CancelRideError"}

\* the base StatusError built from the response
BaseOf(r) == NewStatusError(r, FreshStream).err

\* C11: on a ride-request or cancel-ride error built from a response, the
\* checks that recognise a StatusError, IsRateLimit and IsTokenExpired, give
\* the same result as on the base StatusError built from the same response.
C11_SpecialisedAnswersAsBase ==
    err.kind \in Specialised =>
        /\ IsRateLimit(err) = IsRateLimit(BaseOf(rsp))
        /\ IsTokenExpired(err) = IsTokenExpired(BaseOf(rsp))

\* a body that decodes against the cost-token schema: an object whose
\* cost_token, if any, is a string and whose token_duration is a string
\* spelling a number
CostSchema(b) ==
    /\ b.syntax = "object"
    /\ b.cost_token.tag \in {"absent", "string"}
    /\ b.token_duration.tag = "string"
    /\ b.token_duration.v[1] \in DOMAIN IntOf

\* a body that decodes against the cancellation-price schema
CancelSchema(b) ==
    /\ b.syntax = "object"
    /\ b.amount.tag \in {"absent", "number"}
    /\ b.currency.tag \in {"absent", "string"}
    /\ b.token.tag \in {"absent", "string"}
    /\ b.token_duration.tag \in {"absent", "number"}

StrOr(m, zero) == IF m.tag = "string" THEN m.v[1] ELSE zero

NumOr(m, zero) == IF m.tag = "number" THEN m.v[1] ELSE zero

BaseFields(e) ==
    [Reason |-> e.Reason, Details |-> e.Details, Description |-> e.Description]

\* C12: for a 400 response the specialised error is returned with its base
\* fields built from the captured bytes of the body; when the body does not
\* decode against the narrower schema the payload is unset (Cost nil; amount,
\* currency, token and token duration zero), and when it does the payload
\* holds the members of that body, the duration in seconds.
C12_PayloadUnsetWhenDecodeFails ==
    /\ (rsp.StatusCode = 400 /\ err # NoError) => err.kind \in Specialised
    /\ err.kind \in Specialised =>
           BaseFields(err) = newErrorInfo(Buffer(rsp.Body), rsp.Header)
    /\ err.kind = "RideRequestError" =>
           IF CostSchema(rsp.Body)
           THEN err.Cost =
                    << [CostToken |-> StrOr(rsp.Body.cost_token, ""),
                        TokenDuration |->
                            [sec |-> IntOf[rsp.Body.token_duration.v[1]],
                             nsec |-> 0]] >>
           ELSE err.Cost = <<>>
    /\ err.kind = "CancelRideError" =>
           IF CancelSchema(rsp.Body)
           THEN /\ err.Amount = NumOr(rsp.Body.amount, "0")
                /\ err.Currency = StrOr(rsp.Body.currency, "")
                /\ err.Token = StrOr(rsp.Body.token, "")
                /\ err.TokenDuration =
                       [sec |-> IF rsp.Body.token_duration.tag = "number"
                                THEN IntOf[rsp.Body.token_duration.v[1]]
                                ELSE 0,
                        nsec |-> 0]
           ELSE /\ err.Amount = "0" /\ err.Currency = "" /\ err.Token = ""
                /\ err.TokenDuration = [sec |-> 0, nsec |-> 0]

C12_Witness ==
    /\ err.kind = "RideRequestError"
    /\ rsp.Body.syntax = "object"
    /\ rsp.Body.cost_token.tag = "string"
    /\ ~CostSchema(rsp.Body)
    /\ err.Cost = <<>>
    /\ err.Description # ""

\* the message of an error, by its kind
Message(e) ==
    CASE e.kind = "StatusError" -> StatusError_Error(e)
      [] e.kind = "RideRequestError" -> RideRequestError_Error(e)
      [] e.kind = "CancelRideError" -> CancelRideError_Error(e)

\* the fallback strings: one per specialised kind, and for a StatusError
\* the text that names its status code
Fallbacks ==
    {"<ride request error>", "<cancel ride error>"}
    \cup {"status code: " \o Itoa[n] : n \in ErrStatuses}

\* C13: the message of a StatusError, RideRequestError or CancelRideError is
\* "<reason>: <description>" when both are non-empty, the non-empty one when
\* exactly one is, and a fixed fallback string when both are empty.
C13_MessageFromReasonAndDescription ==
    err.kind \in {"StatusError"} \cup Specialised =>
        IF err.Reason # "" /\ err.Description # ""
        THEN Message(err) = err.Reason \o ": " \o err.Description
        ELSE IF err.Reason # "" THEN Message(err) = err.Reason
        ELSE IF err.Description # "" THEN Message(err) = err.Description
        ELSE Message(err) \in Fallbacks

(***************************************************************************)
(* auth/twoleg, auth/threeleg: the token flows.                            *)
(***************************************************************************)
\* the longest scope string, in atoms
MaxScopeLen == 3

\* a scope string is a sequence of atoms: words without white space, and the
\* space
Space == {" "}
ScopeAtoms == {"public", "rides.read"} \cup Space

RECURSIVE SeqsUpTo(_, _)
SeqsUpTo(S, n) ==
    IF n = 0 THEN {<<>>}
    ELSE LET shorter == SeqsUpTo(S, n - 1)
         IN shorter \cup {Append(q, x) : q \in shorter, x \in S}

ScopeStrings == SeqsUpTo(ScopeAtoms, MaxScopeLen)

\* a JSON string member holding the text s
Text(s) == [tag |-> "string", v |-> s]

\* the bodies of a response of the token endpoint
TokenBodies ==
    [syntax : {"empty", "text", "array"}, error : {Absent},
     error_description : {Absent}, error_detail : {Absent},
     access_token : {Absent}, refresh_token : {Absent}, token_type : {Absent},
     expires_in : {Absent}, scope : {Absent}]
    \cup
    [syntax : {"object"}, error : {Absent},
     error_description : {Absent}, error_detail : {Absent},
     access_token : {Absent, Str("at1")},
     refresh_token : {Absent, Str("rt1")},
     token_type : {Absent, Str("Bearer")},
     expires_in : {Absent, NumOf("3600"), Str("3600")},
     scope : {Absent} \cup {Text(t) : t \in ScopeStrings}]

WireKeys ==
    {"access_token", "refresh_token", "token_type", "expires_in", "scope"}

OAuthStatuses == {200, 401}

OAuthHeaders ==
    {NoRHeader, [NoRHeader EXCEPT !["error"] = <<"invalid_grant">>]}

OAuthResponses ==
    [StatusCode : OAuthStatuses, Header : OAuthHeaders, Body : TokenBodies]

\* encoding/json folds case when it matches a key to a field: the names of
\* the fields, lower-cased; the wire keys are lower case already
Fold(name) ==
    CASE name = "AccessToken" -> "accesstoken"
      [] name = "RefreshToken" -> "refreshtoken"
      [] name = "TokenType" -> "tokentype"
      [] name = "Expires" -> "expires"
      [] name = "Scopes" -> "scopes"
      [] OTHER -> name

\* the member of the object b that encoding/json stores into the field with
\* JSON name `name` (its tag, or the field's name when it has none)
FieldValue(b, name) ==
    LET keys == {k \in WireKeys : k = name \/ Fold(k) = Fold(name)}
    IN IF keys = {} THEN Absent ELSE b[CHOOSE k \in keys : TRUE]

\* the JSON names of the fields of twoleg's token, from its tags
twoleg_token ==
    [AccessToken |-> "access_token", TokenType |-> "token_type",
     Expires |-> "expires_in", Scopes |-> "scope"]

\* threeleg's token and refToken have no tags
threeleg_token ==
    [AccessToken |-> "AccessToken", RefreshToken |-> "RefreshToken",
     TokenType |-> "TokenType", Expires |-> "Expires", Scopes |-> "Scopes"]

threeleg_refToken ==
    [AccessToken |-> "AccessToken", TokenType |-> "TokenType",
     Expires |-> "Expires", Scopes |-> "Scopes"]

\* json.Decoder.Decode into a struct with the fields of names: Expires is an
\* int64, the other fields are strings; a member of another type fails the
\* decode
DecodeInto(b, names) ==
    LET want(f) == IF f = "Expires" THEN "number" ELSE "string"
        m(f) == FieldValue(b, names[f])
        zero(f) == IF f = "Expires" THEN 0
                   ELSE IF f = "Scopes" THEN <<>> ELSE ""
        value(f) == IF m(f).tag # want(f) \/ m(f).v = <<>> THEN zero(f)
                    ELSE IF f = "Expires" THEN IntOf[m(f).v[1]]
                    ELSE IF f = "Scopes" THEN m(f).v
                    ELSE m(f).v[1]
    IN IF b.syntax # "object"
       THEN [failed |-> TRUE, val |-> [f \in DOMAIN names |-> zero(f)]]
       ELSE [failed |-> \E f \in DOMAIN names :
                            m(f).tag \notin {"absent", want(f)},
             val |-> [f \in DOMAIN names |-> value(f)]]

\* strings.Fields: the maximal runs without white space, in order
RECURSIVE FieldsFrom(_, _, _)
FieldsFrom(s, cur, acc) ==
    IF s = <<>> THEN IF cur = "" THEN acc ELSE Append(acc, cur)
    ELSE IF Head(s) \in Space
    THEN FieldsFrom(Tail(s), "", IF cur = "" THEN acc ELSE Append(acc, cur))
    ELSE FieldsFrom(Tail(s), cur \o Head(s), acc)

Fields(s) == FieldsFrom(s, "", <<>>)

\* the zero values of the results
ZeroToken2 ==
    [AccessToken |-> "", TokenType |-> "", Expires |-> Duration(0),
     Scopes |-> <<>>]

ZeroToken3 ==
    [AccessToken |-> "", RefreshToken |-> "", TokenType |-> "",
     Expires |-> Duration(0), Scopes |-> <<>>]

DecodeError == [kind |-> "decode"]

\* what a call gave back: the token, the error, the stream, whether the
\* success body was decoded and whether the call panicked
Returned(tok, e, st, dec) ==
    [token |-> tok, err |-> e,
     stream |-> Close(st),
     decoded |-> dec, panicked |-> FALSE]

Panicked(st) ==
    [token |-> <<>>, err |-> NoError, stream |-> st, decoded |-> FALSE,
     panicked |-> TRUE]

\* a plausible slip: the count of seconds is taken for a Duration
twoleg_GenerateTokenNanos(r, st) ==
    IF r.StatusCode # 200
    THEN LET out == NewStatusError(r, st)
         IN Returned(ZeroToken2, out.err, out.stream, FALSE)
    ELSE LET rd == ReadToEnd(r, st)
             g == DecodeInto(rd.bytes, twoleg_token)
         IN IF g.failed
            THEN Returned(ZeroToken2, DecodeError, rd.stream, TRUE)
            ELSE Returned([AccessToken |-> g.val.AccessToken,
                           TokenType |-> g.val.TokenType,
                           Expires |-> Duration(g.val.Expires),
                           Scopes |-> Fields(g.val.Scopes)],
                          NoError, rd.stream, TRUE)

\* twoleg.GenerateToken once c.Do has returned the response r
twoleg_GenerateToken(r, st) ==
    IF r.StatusCode # 200
    THEN LET out == NewStatusError(r, st)
         IN Returned(ZeroToken2, out.err, out.stream, FALSE)
    ELSE LET rd == ReadToEnd(r, st)
             g == DecodeInto(rd.bytes, twoleg_token)
         IN IF g.failed
            THEN Returned(ZeroToken2, DecodeError, rd.stream, TRUE)
            ELSE Returned([AccessToken |-> g.val.AccessToken,
                           TokenType |-> g.val.TokenType,
                           Expires |-> TimesSecond(Duration(g.val.Expires)),
                           Scopes |-> Fields(g.val.Scopes)],
                          NoError, rd.stream, TRUE)

\* threeleg.GenerateToken once c.Do has returned the response r
threeleg_GenerateToken(r, st) ==
    IF r.StatusCode # 200
    THEN LET out == NewStatusError(r, st)
         IN Returned(ZeroToken3, out.err, out.stream, FALSE)
    ELSE LET rd == ReadToEnd(r, st)
             g == DecodeInto(rd.bytes, threeleg_token)
         IN IF g.failed
            THEN Returned(ZeroToken3, DecodeError, rd.stream, TRUE)
            ELSE Returned([AccessToken |-> g.val.AccessToken,
                           RefreshToken |-> g.val.RefreshToken,
                           TokenType |-> g.val.TokenType,
                           Expires |-> TimesSecond(Duration(g.val.Expires)),
                           Scopes |-> Fields(g.val.Scopes)],
                          NoError, rd.stream, TRUE)

\* threeleg.RefreshToken once c.Do has returned the response r
threeleg_RefreshToken(r, st) ==
    IF r.StatusCode # 200
    THEN LET out == NewStatusError(r, st)
         IN Returned(ZeroToken2, out.err, out.stream, FALSE)
    ELSE LET rd == ReadToEnd(r, st)
             ref == DecodeInto(rd.bytes, threeleg_refToken)
         IN IF ref.failed
            THEN Returned(ZeroToken2, DecodeError, rd.stream, TRUE)
            ELSE Returned([AccessToken |-> ref.val.AccessToken,
                           TokenType |-> ref.val.TokenType,
                           Expires |-> TimesSecond(Duration(ref.val.Expires)),
                           Scopes |-> Fields(ref.val.Scopes)],
                          NoError, rd.stream, TRUE)

\* threeleg.RevokeToken once c.Do has returned the response r: no token, and
\* the body of a 200 is not read
threeleg_RevokeToken(r, st) ==
    IF r.StatusCode # 200
    THEN LET out == NewStatusError(r, st)
         IN Returned(<<>>, out.err, out.stream, FALSE)
    ELSE Returned(<<>>, NoError, st, FALSE)

\* the RefreshToken and RevokeToken that are panic("not impl")
stub_RefreshToken(st) == Panicked(st)

stub_RevokeToken(st) == Panicked(st)

\* c.Do returns a response of the token endpoint
RespondOAuth ==
    /\ rsp = NoRsp /\ err = NoError /\ call = NoCall
    /\ rsp' \in OAuthResponses
    /\ stream' = FreshStream
    /\ UNCHANGED <<err, got, call>>

\* c.Do returns an error and no response
OAuthTransportFail ==
    /\ call = NoCall
    /\ TransportFail
    /\ UNCHANGED call

\* the rest of a call named op: with a transport error it returns the zero
\* token and that error, else what res says
Finish(op, zero, res) ==
    IF err = TransportError
    THEN /\ call' = [op |-> op, token |-> zero, decoded |-> FALSE,
                     panicked |-> FALSE]
         /\ UNCHANGED errVars
    ELSE /\ call' = [op |-> op, token |-> res.token, decoded |-> res.decoded,
                     panicked |-> res.panicked]
         /\ err' = res.err
         /\ stream' = res.stream
         /\ UNCHANGED <<rsp, got>>

Answered == call = NoCall /\ (rsp # NoRsp \/ err = TransportError)

twoleg_GenerateTokenAct ==
    /\ Answered
    /\ Finish("twoleg.GenerateToken", ZeroToken2,
              twoleg_GenerateToken(rsp, stream))

threeleg_GenerateTokenAct ==
    /\ Answered
    /\ Finish("threeleg.GenerateToken", ZeroToken3,
              threeleg_GenerateToken(rsp, stream))

threeleg_RefreshTokenAct ==
    /\ Answered
    /\ Finish("threeleg.RefreshToken", ZeroToken2,
              threeleg_RefreshToken(rsp, stream))

threeleg_RevokeTokenAct ==
    /\ Answered
    /\ Finish("threeleg.RevokeToken", <<>>,
              threeleg_RevokeToken(rsp, stream))

\* the stubs panic before any request is made
stub_RefreshTokenAct ==
    /\ call = NoCall /\ rsp = NoRsp /\ err = NoError
    /\ Finish("threeleg.RefreshToken", ZeroToken2, stub_RefreshToken(stream))

stub_RevokeTokenAct ==
    /\ call = NoCall /\ rsp = NoRsp /\ err = NoError
    /\ Finish("threeleg.RevokeToken", <<>>, stub_RevokeToken(stream))

NextOAuth ==
    \/ RespondOAuth /\ UNCHANGED clientVars
    \/ OAuthTransportFail /\ UNCHANGED clientVars
    \/ twoleg_GenerateTokenAct /\ UNCHANGED clientVars
    \/ threeleg_GenerateTokenAct /\ UNCHANGED clientVars
    \/ threeleg_RefreshTokenAct /\ UNCHANGED clientVars
    \/ threeleg_RevokeTokenAct /\ UNCHANGED clientVars
    \/ stub_RefreshTokenAct /\ UNCHANGED clientVars
    \/ stub_RevokeTokenAct /\ UNCHANGED clientVars

SpecOAuth == InitErrOnly /\ [][NextOAuth]_vars

(***************************************************************************)
(* Properties of the token flows.                                          *)
(***************************************************************************)
RECURSIVE Concat(_)
Concat(s) == IF s = <<>> THEN "" ELSE Head(s) \o Concat(Tail(s))

\* where the runs without white space of s start, and where the run that
\* starts at i ends
Starts(s) ==
    {i \in 1..Len(s) : s[i] \notin Space /\ (i = 1 \/ s[i - 1] \in Space)}

EndOf(s, i) ==
    CHOOSE j \in i..Len(s) :
        /\ \A k \in i..j : s[k] \notin Space
        /\ j = Len(s) \/ s[j + 1] \in Space

\* fs is s split at white space, order kept
IsSplit(s, fs) ==
    /\ Len(fs) = Cardinality(Starts(s))
    /\ \A i \in Starts(s) :
           fs[Cardinality({j \in Starts(s) : j <= i})] =
               Concat(SubSeq(s, i, EndOf(s, i)))

\* a 200 body with the members of the token response, of the right types
TokenBody(b) ==
    /\ b.syntax = "object"
    /\ b.access_token.tag = "string"
    /\ b.token_type.tag = "string"
    /\ b.expires_in.tag = "number"
    /\ b.scope.tag = "string"

\* the token is the body's, normalised
Normalised(tok, b) ==
    /\ tok.AccessToken = b.access_token.v[1]
    /\ tok.TokenType = b.token_type.v[1]
    /\ tok.Expires = [sec |-> IntOf[b.expires_in.v[1]], nsec |-> 0]
    /\ IsSplit(b.scope.v, tok.Scopes)

C15_ThreeLegTokenNormalised ==
    (/\ call.op \in {"threeleg.GenerateToken", "threeleg.RefreshToken"}
     /\ ~call.panicked
     /\ rsp.StatusCode = 200
     /\ TokenBody(rsp.Body)
     /\ rsp.Body.refresh_token.tag = "string") =>
        /\ err = NoError
        /\ Normalised(call.token, rsp.Body)
        /\ call.op = "threeleg.GenerateToken" =>
               call.token.RefreshToken = rsp.Body.refresh_token.v[1]

OAuthOps ==
    {"twoleg.GenerateToken", "threeleg.GenerateToken",
     "threeleg.RefreshToken", "threeleg.RevokeToken"}

\* C16: no call of an OAuth operation panics; after a roundtrip with a status
\* other than 200 the call returns the StatusError of the response and a zero
\* token without decoding the success body; the error is nil only for status
\* 200, and RevokeToken on a 200 returns nil without decoding.
C16_Non200IsStatusErrorNoPanic ==
    call.op \in OAuthOps =>
        /\ ~call.panicked
        /\ (rsp # NoRsp /\ rsp.StatusCode # 200) =>
               /\ err = BaseOf(rsp)
               /\ call.token \in {ZeroToken2, ZeroToken3, <<>>}
               /\ ~call.decoded
        /\ err = NoError => rsp.StatusCode = 200
        /\ (call.op = "threeleg.RevokeToken" /\ rsp.StatusCode = 200) =>
               err = NoError /\ ~call.decoded

(***************************************************************************)
(* auth/threeleg: AuthorizationURL.                                        *)
(***************************************************************************)
\* the longest list of scopes
MaxScopes == 2

\* auth.Scope
Scopes == {"public", "rides.read", "offline"}

ScopeLists == SeqsUpTo(Scopes, MaxScopes)

\* a string is a sequence of atoms; the client ids and states tried, with
\* characters that a query must escape
ClientIDs == {<<"id1">>, <<"id", "&", "1">>}
States == {<<>>, <<"s1">>, <<"a", " ", "b">>, <<"a", "+", "b">>}

\* strings.Join(scopes, " ")
RECURSIVE Join(_)
Join(scopes) ==
    IF scopes = <<>> THEN <<>>
    ELSE IF Len(scopes) = 1 THEN <<scopes[1]>>
    ELSE <<scopes[1], " ">> \o Join(Tail(scopes))

\* url.QueryEscape, atom by atom: the space is written "+", "&" and "+" are
\* percent-encoded, the letters, digits and "." stay
EscapeAtom(a) ==
    CASE a = " " -> "+" [] a = "&" -> "%26" [] a = "+" -> "%2B" [] OTHER -> a

QueryEscape(str) == [i \in 1..Len(str) |-> EscapeAtom(str[i])]

\* url.QueryUnescape
UnescapeAtom(a) ==
    CASE a = "+" -> " " [] a = "%26" -> "&" [] a = "%2B" -> "+" [] OTHER -> a

QueryUnescape(str) == [i \in 1..Len(str) |-> UnescapeAtom(str[i])]

\* the keys in use, in the sorted order in which url.Values.Encode writes them
SortedKeys == <<"client_id", "response_type", "scopes", "state">>

\* url.Values.Encode: for each key in sorted order, one key=value pair per
\* value, both escaped; v maps some of the keys to their lists of values
RECURSIVE EncodeFrom(_, _)
EncodeFrom(v, keys) ==
    IF keys = <<>> THEN <<>>
    ELSE LET k == Head(keys)
             pairs == IF k \in DOMAIN v
                      THEN [i \in 1..Len(v[k]) |-> <<k, QueryEscape(v[k][i])>>]
                      ELSE <<>>
         IN pairs \o EncodeFrom(v, Tail(keys))

Encode(v) == EncodeFrom(v, SortedKeys)

AuthorizeEndpoint == "https://api.lyft.com/oauth/authorize"

\* AuthorizationURL that sets response_type (threeleg.go:18-25, part_000)
AuthorizationURL(clientID, scopes, state) ==
    LET v == [k \in {"client_id", "response_type", "scopes", "state"} |->
                 CASE k = "client_id" -> <<clientID>>
                   [] k = "response_type" -> << <<"code">> >>
                   [] k = "scopes" -> <<Join(scopes)>>
                   [] k = "state" -> <<state>>]
    IN [base |-> AuthorizeEndpoint, query |-> Encode(v)]

\* AuthorizationURL without response_type (threeleg.go:175-181, part_002)
AuthorizationURL_NoResponseType(clientID, scopes, state) ==
    LET v == [k \in {"client_id", "scopes", "state"} |->
                 CASE k = "client_id" -> <<clientID>>
                   [] k = "scopes" -> <<Join(scopes)>>
                   [] k = "state" -> <<state>>]
    IN [base |-> AuthorizeEndpoint, query |-> Encode(v)]

\* AuthorizationURL with one scopes value per scope (part_001)
AuthorizationURL_PerScope(clientID, scopes, state) ==
    LET v == [k \in {"client_id", "scopes", "state"} |->
                 CASE k = "client_id" -> <<clientID>>
                   [] k = "scopes" -> [i \in 1..Len(scopes) |-> <<scopes[i]>>]
                   [] k = "state" -> <<state>>]
    IN [base |-> AuthorizeEndpoint, query |-> Encode(v)]

URLCall(url, clientID, scopes, state) ==
    /\ call = NoCall
    /\ call' = [op |-> "AuthorizationURL", clientID |-> clientID,
                scopes |-> scopes, state |-> state, url |-> url]
    /\ UNCHANGED <<clientVars, errVars>>

AuthorizationURLAct ==
    \E clientID \in ClientIDs, scopes \in ScopeLists, state \in States :
        URLCall(AuthorizationURL(clientID, scopes, state),
                clientID, scopes, state)

AuthorizationURL_NoResponseTypeAct ==
    \E clientID \in ClientIDs, scopes \in ScopeLists, state \in States :
        URLCall(AuthorizationURL_NoResponseType(clientID, scopes, state),
                clientID, scopes, state)

AuthorizationURL_PerScopeAct ==
    \E clientID \in ClientIDs, scopes \in ScopeLists, state \in States :
        URLCall(AuthorizationURL_PerScope(clientID, scopes, state),
                clientID, scopes, state)

NextURL ==
    \/ AuthorizationURLAct
    \/ AuthorizationURL_NoResponseTypeAct
    \/ AuthorizationURL_PerScopeAct

SpecURL == InitErrOnly /\ [][NextURL]_vars

\* url.ParseQuery of the pairs q: each key that occurs, with its unescaped
\* values in order
ParseQuery(q) ==
    LET keys == {q[i][1] : i \in 1..Len(q)}
        valuesOf(k) == SelectSeq(q, LAMBDA pr : pr[1] = k)
    IN [k \in keys |->
           [i \in 1..Len(valuesOf(k)) |-> QueryUnescape(valuesOf(k)[i][2])]]

\* C17: AuthorizationURL(clientID, scopes, state) is the authorization
\* endpoint with a query of exactly client_id = clientID, response_type =
\* code, scopes = the scopes joined by single spaces as one value, and state =
\* state; it is a function of the three arguments and changes nothing else.
C17_AuthorizationURLQuery ==
    call.op = "AuthorizationURL" =>
        /\ call.url.base = AuthorizeEndpoint
        /\ ParseQuery(call.url.query) =
               [k \in {"client_id", "response_type", "scopes", "state"} |->
                   CASE k = "client_id" -> <<call.clientID>>
                     [] k = "response_type" -> << <<"code">> >>
                     [] k = "scopes" -> <<Join(call.scopes)>>
                     [] k = "state" -> <<call.state>>]
        /\ rsp = NoRsp /\ err = NoError /\ hist = <<>>

(***************************************************************************)
(* webhook: VerifySignature and Event.UnmarshalJSON.                       *)
(***************************************************************************)
\* byte strings are sequences of one-byte atoms
Keys == {<<"k", "1">>, <<"k", "2">>}
HookBodies == {<<"b">>, <<"b", "1">>, <<"b", "2">>}

\* HMAC-SHA256 as an ideal keyed hash: a digest that names its key and
\* message, so that different inputs never collide
HMAC(key, body) == <<Concat(key), Concat(body)>>

\* base64.StdEncoding.EncodeToString: the alphabet's spelling of the bytes
\* and the padding
EncodeToString(d) == [i \in 1..Len(d) |-> "b64:" \o d[i]] \o <<"=">>

\* hmac.Equal: unequal lengths are unequal, else every byte is compared
Equal(a, b) == Len(a) = Len(b) /\ \A i \in 1..Len(a) : a[i] = b[i]

\* a plausible slip: the bytes of the signature are compared one by one
\* without comparing the lengths
VerifySignaturePrefix(responseBody, signature, verificationToken) ==
    LET bodySignature == HMAC(verificationToken, responseBody)
        enc == EncodeToString(bodySignature)
    IN /\ Len(signature) <= Len(enc)
       /\ \A i \in 1..Len(signature) : enc[i] = signature[i]

\* VerifySignature
VerifySignature(responseBody, signature, verificationToken) ==
    LET bodySignature == HMAC(verificationToken, responseBody)
    IN Equal(EncodeToString(bodySignature), signature)

\* the signatures tried: the right one of every key and body, each one
\* without its padding, with a byte more and with its first byte changed,
\* the empty one and one that is not base64
GoodSignatures == {EncodeToString(HMAC(k, b)) : k \in Keys, b \in HookBodies}

Signatures ==
    GoodSignatures
    \cup {SubSeq(g, 1, Len(g) - 1) : g \in GoodSignatures}
    \cup {Append(g, "=") : g \in GoodSignatures}
    \cup {[g EXCEPT ![1] = "b64:x"] : g \in GoodSignatures}
    \cup {<<>>, <<"!", "!", "!">>}

VerifySignatureAct ==
    \E body \in HookBodies, sig \in Signatures, key \in Keys :
        /\ call = NoCall
        /\ call' = [op |-> "VerifySignature", body |-> body, sig |-> sig,
                    key |-> key, ok |-> VerifySignature(body, sig, key)]
        /\ UNCHANGED <<clientVars, errVars>>

\* the strings of an event, sequences of atoms
SandboxEventPrefix == <<"sandboxevent">>

EventIDs ==
    {<<"sandboxevent", "_123">>, <<"evt", "_123">>, <<"sandboxevent">>,
     <<"evt", "sandboxevent">>}

\* Event types
RideStatusUpdated == <<"ride.status.updated">>
RideReceiptReady == <<"ride.receipt.ready">>

EventTypes == {RideStatusUpdated, RideReceiptReady, <<"sandboxevent", ".x">>}

\* the occurred_at strings: one in the layout, with the instant it spells in
\* seconds since 1970, and one that is not in the layout
TimeOf ==
    [t \in {<<"2017-03-01T12:00:00+00:00">>} |->
        [isZero |-> FALSE, unix |-> 1488369600]]

\* the zero time.Time
ZeroTime == [isZero |-> TRUE, unix |-> 0]

\* time.Parse(lyft.TimeLayout, s)
ParseTime(s) ==
    IF s \in DOMAIN TimeOf THEN [failed |-> FALSE, t |-> TimeOf[s]]
    ELSE [failed |-> TRUE, t |-> ZeroTime]

\* a JSON object member
Obj(x) == [tag |-> "object", v |-> x]

\* the bodies of a webhook request: event_id, href, occurred_at, event_type
\* and event
EventBodies ==
    [syntax : {"text", "array"}, event_id : {Absent}, href : {Absent},
     occurred_at : {Absent}, event_type : {Absent}, event : {Absent}]
    \cup
    [syntax : {"object"},
     event_id : {Absent, Num} \cup {Text(x) : x \in EventIDs},
     href : {Absent, Text(<<"https://api.lyft.com/v1/rides/1">>)},
     occurred_at : {Absent, Num, Text(<<>>), Text(<<"yesterday">>)}
                   \cup {Text(t) : t \in DOMAIN TimeOf},
     event_type : {Absent} \cup {Text(x) : x \in EventTypes},
     event : {Absent, Obj(<<"ride_id: 1">>), Text(<<"oops">>)}]

ZeroEvent ==
    [EventID |-> <<>>, URL |-> <<>>, Occurred |-> ZeroTime,
     EventType |-> <<>>, Detail |-> <<>>]

\* an Event decoded before
EarlierEvent ==
    [EventID |-> <<"evt", "_0">>, URL |-> <<"https://api.lyft.com/v1/rides/0">>,
     Occurred |-> [isZero |-> FALSE, unix |-> 1488000000],
     EventType |-> RideReceiptReady,
     Detail |-> <<"ride_id: 0">>]

\* strings.HasPrefix
HasPrefix(str, prefix) ==
    Len(str) >= Len(prefix) /\ SubSeq(str, 1, Len(prefix)) = prefix

\* Event.IsSandbox
IsSandbox(e) == HasPrefix(e.EventID, SandboxEventPrefix)

\* json.Unmarshal(p, &aux): the members of the right type are stored, the
\* others leave the zero value and fail the decode
UnmarshalAux(p) ==
    LET str(m) == IF m.tag = "string" THEN m.v ELSE <<>>
    IN IF p.syntax # "object"
       THEN [failed |-> TRUE, EventID |-> <<>>, URL |-> <<>>,
             Occurred |-> <<>>, EventType |-> <<>>, Detail |-> <<>>]
       ELSE [failed |-> \/ \E k \in {"event_id", "href", "occurred_at",
                                     "event_type"} :
                               p[k].tag \notin {"absent", "string"}
                        \/ p.event.tag \notin {"absent", "object"},
             EventID |-> str(p.event_id),
             URL |-> str(p.href),
             Occurred |-> str(p.occurred_at),
             EventType |-> str(p.event_type),
             Detail |-> IF p.event.tag = "object" THEN p.event.v ELSE <<>>]

\* Event.UnmarshalJSON on the target e: EventID and URL are assigned before
\* occurred_at is parsed, and EventID is assigned again, from aux.EventType
UnmarshalJSON(e, p) ==
    LET aux == UnmarshalAux(p)
        e1 == [e EXCEPT !.EventID = aux.EventID, !.URL = aux.URL]
        o == ParseTime(aux.Occurred)
        e2 == IF aux.Occurred # <<>> THEN [e1 EXCEPT !.Occurred = o.t] ELSE e1
    IN IF aux.failed THEN [failed |-> TRUE, e |-> e]
       ELSE IF aux.Occurred # <<>> /\ o.failed THEN [failed |-> TRUE, e |-> e1]
       ELSE [failed |-> FALSE,
             e |-> [e2 EXCEPT !.EventID = aux.EventType,
                              !.Detail = aux.Detail]]

UnmarshalJSONAct ==
    \E e \in {ZeroEvent, EarlierEvent}, p \in EventBodies :
        LET out == UnmarshalJSON(e, p)
        IN /\ call = NoCall
           /\ call' = [op |-> "UnmarshalJSON", p |-> p, pre |-> e,
                       e |-> out.e, failed |-> out.failed]
           /\ UNCHANGED <<clientVars, errVars>>

NextHook ==
    \/ VerifySignatureAct
    \/ UnmarshalJSONAct

SpecHook == InitErrOnly /\ [][NextHook]_vars

(***************************************************************************)
(* Properties of the webhook functions.                                    *)
(***************************************************************************)
\* a and b have the same length and differ in exactly one byte
OneByteApart(a, b) ==
    /\ Len(a) = Len(b)
    /\ Cardinality({i \in 1..Len(a) : a[i] # b[i]}) = 1

\* C18: VerifySignature(body, sig, key) is true iff sig is the base64
\* encoding of the HMAC of body under key, and false for every other sig, the
\* empty one, one of another length and one that is not base64 included;
\* from an accepted triple, a body, sig or key with one byte changed is
\* rejected.
C18_VerifyIffBase64OfHMAC ==
    call.op = "VerifySignature" =>
        /\ call.ok \in BOOLEAN
        /\ call.ok <=> call.sig = EncodeToString(HMAC(call.key, call.body))
        /\ call.ok =>
               /\ \A b \in HookBodies :
                      OneByteApart(b, call.body) =>
                          ~VerifySignature(b, call.sig, call.key)
               /\ \A g \in Signatures :
                      OneByteApart(g, call.sig) =>
                          ~VerifySignature(call.body, g, call.key)
               /\ \A k \in Keys :
                      OneByteApart(k, call.key) =>
                          ~VerifySignature(call.body, call.sig, k)

C18_Witness ==
    /\ call.op = "VerifySignature"
    /\ call.ok
    /\ \E b \in HookBodies : OneByteApart(b, call.body)
    /\ \E g \in Signatures : OneByteApart(g, call.sig)
    /\ \E k \in Keys : OneByteApart(k, call.key)

\* C19: after UnmarshalJSON succeeds on a body whose event_id is x, IsSandbox
\* of the event is true iff x starts with "sandboxevent", whatever event_type
\* holds.
C19_SandboxFromEventID ==
    (/\ call.op = "UnmarshalJSON"
     /\ ~call.failed
     /\ call.p.event_id.tag = "string") =>
        (IsSandbox(call.e) <=> HasPrefix(call.p.event_id.v, SandboxEventPrefix))

\* the field holds the wire member when the member is present
FromWire(field, m) == m.tag # "absent" => field = m.v

\* C20: after UnmarshalJSON succeeds each field of the event holds its wire
\* member: EventID event_id, URL href, Occurred the parsed occurred_at,
\* EventType event_type, Detail event.
C20_FieldsFromWire ==
    (call.op = "UnmarshalJSON" /\ ~call.failed) =>
        /\ FromWire(call.e.EventID, call.p.event_id)
        /\ FromWire(call.e.URL, call.p.href)
        /\ FromWire(call.e.EventType, call.p.event_type)
        /\ FromWire(call.e.Detail, call.p.event)
        /\ call.p.occurred_at.v \in DOMAIN TimeOf =>
               call.e.Occurred = TimeOf[call.p.occurred_at.v]

\* the body's occurred_at parses under the layout
OccurredParses(p) ==
    p.occurred_at.tag = "string" /\ ~ParseTime(p.occurred_at.v).failed

\* C21: UnmarshalJSON on a body whose occurred_at does not parse under the
\* layout, an empty or missing one included, returns an error; it never
\* succeeds leaving Occurred the zero time.
C21_UnparsedOccurredIsError ==
    call.op = "UnmarshalJSON" =>
        /\ ~OccurredParses(call.p) => call.failed
        /\ ~call.failed => ~call.e.Occurred.isZero

\* C29: when UnmarshalJSON returns an error the target Event is as it was
\* before the call.
C29_FailedDecodeLeavesEvent ==
    (call.op = "UnmarshalJSON" /\ call.failed) => call.e = call.pre

(***************************************************************************)
(* Properties of Client.do with a failing transport.                       *)
(***************************************************************************)
\* C30: when the transport returns an error and no response, do returns that
\* error and the absent response without dumping it, whatever the debug flag;
\* the flag never changes the response or the error that do returns.
C30_DebugKeepsTransportError ==
    last.op = "do" =>
        /\ last.rt.err =>
               /\ ~last.out.panicked
               /\ last.out.err
               /\ last.out.rsp = NoResponse
        /\ \A order \in KeyOrders(last.pre.Header) :
               LET other == do([last.pre EXCEPT !.debug = ~@], last.req,
                               last.rt, order)
               IN /\ ~other.panicked
                  /\ other.rsp = last.out.rsp
                  /\ other.err = last.out.err

(***************************************************************************)
(* Properties of the response body as a resource.                          *)
(***************************************************************************)
\* C27: the body of a response is closed once, by the operation that
\* obtained it as it returns, never a second time, and it is not read once it
\* has been closed.
C27_ClosedOnceNeverReadAfter ==
    /\ stream.closes <= 1
    /\ stream.lateReads = 0

(***************************************************************************)
(* rides.go, avail.go, users.go: the endpoint methods, from the request    *)
(* they build to what they return.                                         *)
(***************************************************************************)
\* BaseURL is the base URL for Lyft's v1 HTTP API
BaseURL == "https://api.lyft.com/v1"

\* Client.base
base(cl) == IF cl.BaseURL = "" THEN BaseURL ELSE cl.BaseURL

\* the Clients that send: the package default or a base URL of their own,
\* with and without debug
SendClients ==
    [AccessTokens : {<<>>}, AccessToken : {"A"}, Header : {NoHeader},
     BaseURL : {"", "http://localhost:8080"}, debug : BOOLEAN]

\* the bodies of the responses: those of the ride errors, with the ride_id of
\* a CreatedRide and the list that the GET endpoints return (ride_types,
\* cost_estimates, eta_estimates, ride_history)
SendBodies ==
    [syntax : {"empty", "text"}, error : {Absent},
     error_description : {Absent}, error_detail : {Absent},
     cost_token : {Absent}, token_duration : {Absent}, amount : {Absent},
     currency : {Absent}, token : {Absent}, ride_id : {Absent},
     items : {Absent}]
    \cup
    [syntax : {"object"},
     error : {Absent, Str(TokenExpired)},
     error_description : {Absent}, error_detail : {Absent},
     cost_token : {Absent, Str("ct1")},
     token_duration : {Absent, Str("60")},
     amount : {Absent}, currency : {Absent}, token : {Absent},
     ride_id : {Absent, Str("ride1"), Num},
     items : {Absent, List(<<"item1">>), Str("oops")}]

SendStatuses == {200, 201, 204, 400, 429}

SendResponses ==
    [StatusCode : SendStatuses, Header : {NoRHeader}, Body : SendBodies]

\* what client.Do does with the request: an error and no response, or a
\* response
RoundTrips ==
    {[err |-> TRUE, rsp |-> NoRsp]}
    \cup [err : {FALSE}, rsp : SendResponses]

\* c.do(r) for the request header h, seen from the endpoint method: the
\* response that the transport gave, the error, or the panic of do
sendDo(cl, h, rt) ==
    LET d == do(cl, h,
                [err |-> rt.err,
                 statusOf |-> [t \in Tokens |-> rt.rsp.StatusCode]],
                CHOOSE order \in KeyOrders(cl.Header) : TRUE)
    IN [rsp |-> rt.rsp, r |-> d.r, err |-> d.err, panicked |-> d.panicked]

JSONHeader == [NoHeader EXCEPT !["Content-Type"] = <<"application/json">>]

\* what an endpoint method gave back: result, header (<<>> for nil), error,
\* the state of the body's stream, and whether the call panicked
Aborted(u, zero) ==
    [url |-> u, result |-> zero, header |-> <<>>, err |-> NoError,
     stream |-> FreshStream, panicked |-> TRUE]

\* if err != nil { return zero, nil, err }
Failed(u, zero) ==
    [url |-> u, result |-> zero, header |-> <<>>, err |-> TransportError,
     stream |-> FreshStream, panicked |-> FALSE]

\* a return after defer rsp.Body.Close()
Return(u, res, r, e, st) ==
    [url |-> u, result |-> res, header |-> <<r.Header>>, err |-> e,
     stream |-> Close(st), panicked |-> FALSE]

ZeroCreatedRide == [RideID |-> ""]

\* json.Decoder.Decode into CreatedRide, of which the model keeps RideID
DecodeCreatedRide(b) ==
    IF b.syntax # "object" THEN [failed |-> TRUE, val |-> ZeroCreatedRide]
    ELSE [failed |-> b.ride_id.tag \notin {"absent", "string"},
          val |-> [RideID |-> IF b.ride_id.tag = "string"
                              THEN b.ride_id.v[1] ELSE ""]]

\* json.Decoder.Decode into the struct with the one list member of a GET
\* endpoint
DecodeItems(b) ==
    IF b.syntax # "object" THEN [failed |-> TRUE, val |-> <<>>]
    ELSE [failed |-> b.items.tag \notin {"absent", "list"},
          val |-> IF b.items.tag = "list" THEN b.items.v ELSE <<>>]

\* Client.RequestRide of rides.go
Client_RequestRide(cl, rt) ==
    LET u == [base |-> base(cl), path |-> "/rides", query |-> <<>>]
        d == sendDo(cl, JSONHeader, rt)
        r == d.rsp
    IN IF d.panicked THEN Aborted(u, ZeroCreatedRide)
       ELSE IF d.err THEN Failed(u, ZeroCreatedRide)
       ELSE IF r.StatusCode = 201
       THEN LET rd == ReadToEnd(r, FreshStream)
                cr == DecodeCreatedRide(rd.bytes)
            IN IF cr.failed
               THEN Return(u, ZeroCreatedRide, r, DecodeError, rd.stream)
               ELSE Return(u, cr.val, r, NoError, rd.stream)
       ELSE IF r.StatusCode = 400
       THEN LET out == newRideRequestError(r, FreshStream)
            IN Return(u, ZeroCreatedRide, r, out.err, out.stream)
       ELSE LET out == NewStatusError(r, FreshStream)
            IN Return(u, ZeroCreatedRide, r, out.err, out.stream)

\* Client.RequestRide of part_006: the path has its own /v1, and status 400
\* is panic("unhandled case"), after which the deferred Close still runs
Client_RequestRide_part006(cl, rt) ==
    LET u == [base |-> base(cl), path |-> "/v1/rides", query |-> <<>>]
        d == sendDo(cl, JSONHeader, rt)
        r == d.rsp
    IN IF d.panicked THEN Aborted(u, ZeroCreatedRide)
       ELSE IF d.err THEN Failed(u, ZeroCreatedRide)
       ELSE IF r.StatusCode = 201
       THEN LET rd == ReadToEnd(r, FreshStream)
                cr == DecodeCreatedRide(rd.bytes)
            IN IF cr.failed
               THEN Return(u, ZeroCreatedRide, r, DecodeError, rd.stream)
               ELSE Return(u, cr.val, r, NoError, rd.stream)
       ELSE IF r.StatusCode = 400
       THEN [Aborted(u, ZeroCreatedRide) EXCEPT !.stream = Close(FreshStream)]
       ELSE LET out == NewStatusError(r, FreshStream)
            IN Return(u, ZeroCreatedRide, r, out.err, out.stream)

\* Client.CancelRide; it has no result besides the header
Client_CancelRide(cl, rt) ==
    LET u == [base |-> base(cl), path |-> "/rides/ride1/cancel",
              query |-> <<>>]
        d == sendDo(cl, NoHeader, rt)
        r == d.rsp
    IN IF d.panicked THEN Aborted(u, <<>>)
       ELSE IF d.err THEN Failed(u, <<>>)
       ELSE IF r.StatusCode = 204 THEN Return(u, <<>>, r, NoError, FreshStream)
       ELSE IF r.StatusCode = 400
       THEN LET out == newCancelRideError(r, FreshStream)
            IN Return(u, <<>>, r, out.err, out.stream)
       ELSE LET out == NewStatusError(r, FreshStream)
            IN Return(u, <<>>, r, out.err, out.stream)

\* IgnoreArg is the sentinel of an optional float64 argument
IgnoreArg == -181

\* the coordinates tried, whole degrees, and the ride types
Latitudes == {37, IgnoreArg}
Longitudes == {-122, IgnoreArg}
RideTypeArgs == {"", "lyft"}

\* formatFloat: strconv.FormatFloat(n, 'f', -1, 64) of a whole number
formatFloat(n) ==
    CASE n = 37 -> "37" [] n = -122 -> "-122" [] n = IgnoreArg -> "-181"

\* the rest of a GET endpoint method once the request is built: c.do, the
\* deferred Close, NewStatusError unless the status is 200, else the decode
\* of the list
getItems(u, cl, rt) ==
    LET d == sendDo(cl, NoHeader, rt)
        r == d.rsp
    IN IF d.panicked THEN Aborted(u, <<>>)
       ELSE IF d.err THEN Failed(u, <<>>)
       ELSE IF r.StatusCode # 200
       THEN LET out == NewStatusError(r, FreshStream)
            IN [Return(u, <<>>, r, out.err, out.stream) EXCEPT !.header = <<>>]
       ELSE LET rd == ReadToEnd(r, FreshStream)
                response == DecodeItems(rd.bytes)
            IN IF response.failed
               THEN [Return(u, <<>>, r, DecodeError, rd.stream)
                        EXCEPT !.header = <<>>]
               ELSE [Return(u, response.val, r, NoError, rd.stream)
                        EXCEPT !.header = <<>>]

\* Client.RideTypes: the request goes to c.BaseURL + "/v1/ridetypes"
Client_RideTypes(cl, lat, lng, rideType, rt) ==
    LET keys == {"lat", "lng"}
                \cup (IF rideType # "" THEN {"ride_type"} ELSE {})
        vals == [k \in keys |->
                    CASE k = "lat" -> formatFloat(lat)
                      [] k = "lng" -> formatFloat(lng)
                      [] k = "ride_type" -> rideType]
    IN getItems([base |-> cl.BaseURL, path |-> "/v1/ridetypes",
                 query |-> vals], cl, rt)

\* Client.RideEstimates: ride_type is set to formatFloat(endLng)
Client_RideEstimates(cl, startLat, startLng, endLat, endLng, rideType, rt) ==
    LET keys == {"start_lat", "start_lng"}
                \cup (IF endLat # IgnoreArg THEN {"end_lat"} ELSE {})
                \cup (IF endLng # IgnoreArg THEN {"end_lng"} ELSE {})
                \cup (IF rideType # "" THEN {"ride_type"} ELSE {})
        vals == [k \in keys |->
                    CASE k = "start_lat" -> formatFloat(startLat)
                      [] k = "start_lng" -> formatFloat(startLng)
                      [] k = "end_lat" -> formatFloat(endLat)
                      [] k = "end_lng" -> formatFloat(endLng)
                      [] k = "ride_type" -> formatFloat(endLng)]
    IN getItems([base |-> cl.BaseURL, path |-> "/v1/cost", query |-> vals],
                cl, rt)

\* Client.DriverETA: ride_type is set to formatFloat(endLng)
Client_DriverETA(cl, startLat, startLng, endLat, endLng, rideType, rt) ==
    LET keys == {"lat", "lng"}
                \cup (IF endLat # IgnoreArg THEN {"destination_lat"} ELSE {})
                \cup (IF endLng # IgnoreArg THEN {"destination_lng"} ELSE {})
                \cup (IF rideType # "" THEN {"ride_type"} ELSE {})
        vals == [k \in keys |->
                    CASE k = "lat" -> formatFloat(startLat)
                      [] k = "lng" -> formatFloat(startLng)
                      [] k = "destination_lat" -> formatFloat(endLat)
                      [] k = "destination_lng" -> formatFloat(endLng)
                      [] k = "ride_type" -> formatFloat(endLng)]
    IN getItems([base |-> cl.BaseURL, path |-> "/v1/eta", query |-> vals],
                cl, rt)

\* the times and limits given to RideHistory
HistoryTimes == {ZeroTime} \cup {TimeOf[t] : t \in DOMAIN TimeOf}
Limits == {-1, 10}

\* t.UTC().Format("2006-01-02T15:04:05Z")
FormatUTC(t) ==
    IF t.isZero THEN "0001-01-01T00:00:00Z" ELSE "2017-03-01T12:00:00Z"

\* strconv.FormatInt(int64(limit), 10)
FormatInt(n) == CASE n = 10 -> "10" [] n = 50 -> "50" [] n = -1 -> "-1"

\* Client.RideHistory: the request goes to c.base() + "/v1/rides"; a zero end
\* is left out, a limit of -1 stands for 50
Client_RideHistory(cl, start, end, limit, rt) ==
    LET keys == {"start_time", "limit"}
                \cup (IF ~end.isZero THEN {"end_time"} ELSE {})
        lim == IF limit = -1 THEN 50 ELSE limit
        vals == [k \in keys |->
                    CASE k = "start_time" -> FormatUTC(start)
                      [] k = "end_time" -> FormatUTC(end)
                      [] k = "limit" -> FormatInt(lim)]
    IN getItems([base |-> base(cl), path |-> "/v1/rides", query |-> vals],
                cl, rt)

\* one call of an endpoint method by a Client cl, with its arguments
Called(op, cl, args, rt, out) ==
    /\ call = NoCall
    /\ call' = [op |-> op, c |-> cl, args |-> args, rt |-> rt, out |-> out]
    /\ UNCHANGED <<clientVars, errVars>>

Client_RequestRideAct ==
    /\ call = NoCall
    /\ \E cl \in SendClients, rt \in RoundTrips :
           Called("RequestRide", cl, <<>>, rt, Client_RequestRide(cl, rt))

Client_RequestRide_part006Act ==
    /\ call = NoCall
    /\ \E cl \in SendClients, rt \in RoundTrips :
           Called("RequestRide", cl, <<>>, rt, Client_RequestRide_part006(cl, rt))

Client_CancelRideAct ==
    /\ call = NoCall
    /\ \E cl \in SendClients, rt \in RoundTrips :
           Called("CancelRide", cl, <<>>, rt, Client_CancelRide(cl, rt))

Client_RideTypesAct ==
    /\ call = NoCall
    /\ \E cl \in SendClients, rt \in RoundTrips, rideType \in RideTypeArgs :
           Called("RideTypes", cl,
                  [lat |-> 37, lng |-> -122, rideType |-> rideType], rt,
                  Client_RideTypes(cl, 37, -122, rideType, rt))

Client_RideEstimatesAct ==
    /\ call = NoCall
    /\ \E cl \in SendClients, rt \in RoundTrips, endLat \in Latitudes,
          endLng \in Longitudes, rideType \in RideTypeArgs :
           Called("RideEstimates", cl,
                  [endLat |-> endLat, endLng |-> endLng, rideType |-> rideType],
                  rt,
                  Client_RideEstimates(cl, 37, -122, endLat, endLng, rideType, rt))

Client_DriverETAAct ==
    /\ call = NoCall
    /\ \E cl \in SendClients, rt \in RoundTrips, endLat \in Latitudes,
          endLng \in Longitudes, rideType \in RideTypeArgs :
           Called("DriverETA", cl,
                  [endLat |-> endLat, endLng |-> endLng, rideType |-> rideType],
                  rt,
                  Client_DriverETA(cl, 37, -122, endLat, endLng, rideType, rt))

Client_RideHistoryAct ==
    /\ call = NoCall
    /\ \E cl \in SendClients, rt \in RoundTrips, end \in HistoryTimes,
          limit \in Limits :
           Called("RideHistory", cl, [end |-> end, limit |-> limit], rt,
                  Client_RideHistory(cl, CHOOSE t \in HistoryTimes : ~t.isZero,
                                     end, limit, rt))

NextSend ==
    \/ Client_RequestRideAct
    \/ Client_RequestRide_part006Act
    \/ Client_CancelRideAct
    \/ Client_RideTypesAct
    \/ Client_RideEstimatesAct
    \/ Client_DriverETAAct
    \/ Client_RideHistoryAct

SpecSend == InitErrOnly /\ [][NextSend]_vars

(***************************************************************************)
(* Properties of the endpoint methods.                                     *)
(***************************************************************************)
SendOps ==
    {"RequestRide", "CancelRide", "RideTypes", "RideEstimates", "DriverETA",
     "RideHistory"}

SuccessStatuses == {200, 201, 204}

\* C22: when the transport returns an error an operation returns that error
\* itself, no header and a zero result, never a StatusError; a StatusError
\* is returned only after a completed roundtrip with a non-success status.
C22_TransportErrorReturnedAsIs ==
    call.op \in SendOps =>
        /\ call.rt.err =>
               /\ ~call.out.panicked
               /\ call.out.err = TransportError
               /\ call.out.header = <<>>
               /\ call.out.result \in {ZeroCreatedRide, <<>>}
        /\ call.out.err.kind = "StatusError" =>
               /\ ~call.rt.err
               /\ call.rt.rsp.StatusCode \notin SuccessStatuses

\* the status on which an operation succeeds and the kind of its error for
\* status 400
OkStatus(op) == IF op = "RequestRide" THEN 201 ELSE 204

BadRequestKind(op) ==
    IF op = "RequestRide" THEN "RideRequestError" ELSE "CancelRideError"

\* C23: after a completed roundtrip RequestRide returns a nil error only for
\* 201, a RideRequestError for 400 and a StatusError for any other status;
\* CancelRide a nil error only for 204, a CancelRideError for 400 and a
\* StatusError for any other status; no status makes the call panic.
C23_StatusDecidesOutcome ==
    (call.op \in {"RequestRide", "CancelRide"} /\ ~call.rt.err) =>
        LET status == call.rt.rsp.StatusCode
        IN /\ ~call.out.panicked
           /\ call.out.err = NoError => status = OkStatus(call.op)
           /\ status = 400 => call.out.err.kind = BadRequestKind(call.op)
           /\ status \notin {OkStatus(call.op), 400} =>
                  call.out.err.kind = "StatusError"

\* the path of each operation under the root of the v1 API
EndpointPath(op) ==
    CASE op = "RequestRide" -> "/rides"
      [] op = "CancelRide" -> "/rides/ride1/cancel"
      [] op = "RideTypes" -> "/ridetypes"
      [] op = "RideEstimates" -> "/cost"
      [] op = "DriverETA" -> "/eta"
      [] op = "RideHistory" -> "/rides"

\* C24: the request of every operation goes to the Client's BaseURL when it
\* is non-empty and to https://api.lyft.com/v1 when it is empty, followed by
\* the endpoint's path once.
C24_BaseURLResolved ==
    call.op \in SendOps =>
        call.out.url.base \o call.out.url.path =
            (IF call.c.BaseURL # "" THEN call.c.BaseURL
             ELSE "https://api.lyft.com/v1") \o EndpointPath(call.op)

\* the query parameter k is sent iff the argument x is given, and then it
\* spells x
SentIff(q, k, given, text) ==
    /\ k \in DOMAIN q <=> given
    /\ given => q[k] = text

\* C26: RideEstimates and DriverETA send ride_type equal to the rideType
\* argument when it is non-empty and not at all when it is empty, and send
\* the end / destination latitude and longitude iff the argument is not
\* IgnoreArg.
C26_OptionalQueryParameters ==
    call.op \in {"RideEstimates", "DriverETA"} =>
        LET q == call.out.url.query
            a == call.args
            lat == IF call.op = "RideEstimates" THEN "end_lat"
                   ELSE "destination_lat"
            lng == IF call.op = "RideEstimates" THEN "end_lng"
                   ELSE "destination_lng"
        IN /\ SentIff(q, "ride_type", a.rideType # "", a.rideType)
           /\ SentIff(q, lat, a.endLat # IgnoreArg, formatFloat(a.endLat))
           /\ SentIff(q, lng, a.endLng # IgnoreArg, formatFloat(a.endLng))

(***************************************************************************)
(* lyft.go: concurrent calls of do on one Client.  Each call has its own   *)
(* request; the steps of do are the reads and writes of its statements.    *)
(***************************************************************************)
\* number of goroutines inside do at the same time
NumSends == 2

Senders == 1..NumSends

\* the Client shared by the calls; HTTPClient is nil or set
SharedClients ==
    [AccessTokens : {<<>>}, AccessToken : {"A", "B"}, Header : CHeaders,
     BaseURL : {"", "http://localhost:8080"}, HTTPClient : {"nil", "set"},
     debug : BOOLEAN]

\* the transport answers every token alike in these runs
SharedTransports ==
    {rt \in Transports : \A t \in Tokens : rt.statusOf[t] = rt.statusOf["A"]}

\* the (key, value) pairs that the two loops of addHeader visit, in order
RECURSIVE Items(_, _)
Items(cHeader, order) ==
    IF order = <<>> THEN <<>>
    ELSE [i \in 1..Len(cHeader[Head(order)]) |->
              <<Head(order), cHeader[Head(order)][i]>>]
         \o Items(cHeader, Tail(order))

\* one call of do that has not started yet, on the request header r
NewSend(r) ==
    [pc |-> "call", r0 |-> r, h |-> r, todo |-> <<>>, client |-> "unset",
     rsp |-> NoResponse, err |-> FALSE]

\* a plausible slip: authorize is handed the Client's header, c.Header,
\* instead of the request's
doStepOnClient(cl, g, order, rt) ==
    CASE g.pc = "call" ->
             [c |-> cl,
              g |-> [g EXCEPT !.pc = "addHeader",
                              !.todo = Items(cl.Header, order)]]
      [] g.pc = "addHeader" /\ g.todo # <<>> ->
             [c |-> cl,
              g |-> [g EXCEPT !.h = HeaderAdd(@, Head(g.todo)[1],
                                              Head(g.todo)[2]),
                              !.todo = Tail(@)]]
      [] g.pc = "addHeader" /\ g.todo = <<>> ->
             [c |-> [cl EXCEPT !.Header = authorize(cl, @)],
              g |-> [g EXCEPT !.pc = "client"]]
      [] g.pc = "client" ->
             [c |-> cl,
              g |-> [g EXCEPT !.pc = "Do",
                              !.client = IF cl.HTTPClient # "nil"
                                         THEN cl.HTTPClient
                                         ELSE "DefaultClient"]]
      [] g.pc = "Do" ->
             [c |-> cl,
              g |-> [g EXCEPT
                       !.pc = IF cl.debug /\ rt.err THEN "panicked"
                              ELSE "returned",
                       !.rsp = IF rt.err THEN NoResponse
                               ELSE [StatusCode |->
                                         rt.statusOf[BearerToken(g.h)]],
                       !.err = rt.err]]

\* one step of a call of do in state g on the Client cl: the start of the
\* range over c.Header (which fixes the order of the keys), one h.Add of
\* addHeader, authorize, the choice of the HTTP client, and client.Do with
\* the dumps of debug
doStep(cl, g, order, rt) ==
    CASE g.pc = "call" ->
             [c |-> cl,
              g |-> [g EXCEPT !.pc = "addHeader",
                              !.todo = Items(cl.Header, order)]]
      [] g.pc = "addHeader" /\ g.todo # <<>> ->
             [c |-> cl,
              g |-> [g EXCEPT !.h = HeaderAdd(@, Head(g.todo)[1],
                                              Head(g.todo)[2]),
                              !.todo = Tail(@)]]
      [] g.pc = "addHeader" /\ g.todo = <<>> ->
             [c |-> cl,
              g |-> [g EXCEPT !.h = authorize(cl, @), !.pc = "client"]]
      [] g.pc = "client" ->
             [c |-> cl,
              g |-> [g EXCEPT !.pc = "Do",
                              !.client = IF cl.HTTPClient # "nil"
                                         THEN cl.HTTPClient
                                         ELSE "DefaultClient"]]
      [] g.pc = "Do" ->
             [c |-> cl,
              g |-> [g EXCEPT
                       !.pc = IF cl.debug /\ rt.err THEN "panicked"
                              ELSE "returned",
                       !.rsp = IF rt.err THEN NoResponse
                               ELSE [StatusCode |->
                                         rt.statusOf[BearerToken(g.h)]],
                       !.err = rt.err]]

Finished(g) == g.pc \in {"returned", "panicked"}

InsideDo(g) == g.pc \notin {"call", "returned", "panicked"}

InitShared ==
    /\ InitErr
    /\ hist = <<>>
    /\ last = [op |-> "new"]
    /\ c \in SharedClients
    /\ \E rs \in [Senders -> ReqHeaders] :
           call = [op |-> "do", c0 |-> c, overlap |-> FALSE,
                   g |-> [i \in Senders |-> NewSend(rs[i])]]

\* the goroutine i takes its next step; a panic ends the program
doStepAct ==
    /\ call.op = "do"
    /\ \A j \in Senders : call.g[j].pc # "panicked"
    /\ \E i \in Senders :
           /\ ~Finished(call.g[i])
           /\ \E order \in (IF call.g[i].pc = "call" THEN KeyOrders(c.Header)
                            ELSE {<<>>}),
                 rt \in (IF call.g[i].pc = "Do" THEN SharedTransports
                         ELSE {CHOOSE t \in SharedTransports : t.err}) :
                  LET out == doStep(c, call.g[i], order, rt)
                  IN /\ c' = out.c
                     /\ call' = [call EXCEPT
                            !.g[i] = out.g,
                            !.overlap = @ \/ \E j \in Senders \ {i} :
                                                 InsideDo(call.g[j])]
    /\ UNCHANGED <<hist, last, errVars>>

NextShared == doStepAct

SpecShared == InitShared /\ [][NextShared]_vars

\* the headers a request can end with when it is the only one sent
AloneHeaders(cl, r) ==
    { do(cl, r, CHOOSE t \in SharedTransports : ~t.err, order).r :
          order \in KeyOrders(cl.Header) }

\* C25: while two calls of do on one Client interleave, every field of the
\* Client stays as it was, the request of a call that has not started is as
\* its caller made it, and the header of each finished call is one that the
\* same call yields when it runs alone.
C25_ConcurrentSendsIndependent ==
    call.op = "do" =>
        /\ c = call.c0
        /\ \A i \in Senders :
               /\ call.g[i].pc = "call" => call.g[i].h = call.g[i].r0
               /\ Finished(call.g[i]) =>
                      call.g[i].h \in AloneHeaders(call.c0, call.g[i].r0)

\* two calls that overlapped have both returned, their requests differ and
\* the Client has headers under two keys
C25_Witness ==
    /\ call.op = "do"
    /\ call.overlap
    /\ \A i \in Senders : call.g[i].pc = "returned"
    /\ call.g[1].r0 # call.g[2].r0
    /\ Cardinality(KeyOrders(c.Header)) = 2

(***************************************************************************)
(* int64 arithmetic of the durations.  A natural number is a sequence of   *)
(* limbs in base 2^15, least significant first, without a leading zero; an *)
(* int64 bit pattern is such a number below 2^64 (four limbs and 4 bits).  *)
(***************************************************************************)
LimbBase == 2^15

RECURSIVE Trim(_)
Trim(a) ==
    IF a # <<>> /\ a[Len(a)] = 0 THEN Trim(SubSeq(a, 1, Len(a) - 1)) ELSE a

\* the limbs of a number below 2^31
RECURSIVE Limbs(_)
Limbs(x) ==
    IF x = 0 THEN <<>> ELSE <<x % LimbBase>> \o Limbs(x \div LimbBase)

Rest(a) == IF a = <<>> THEN <<>> ELSE Tail(a)

Low(a) == IF a = <<>> THEN 0 ELSE Head(a)

RECURSIVE AddCarry(_, _, _)
AddCarry(a, b, carry) ==
    IF a = <<>> /\ b = <<>> THEN Limbs(carry)
    ELSE LET sum == Low(a) + Low(b) + carry
         IN <<sum % LimbBase>> \o AddCarry(Rest(a), Rest(b), sum \div LimbBase)

AddN(a, b) == Trim(AddCarry(a, b, 0))

RECURSIVE MulLimb(_, _, _)
MulLimb(a, k, carry) ==
    IF a = <<>> THEN Limbs(carry)
    ELSE LET prod == Head(a) * k + carry
         IN <<prod % LimbBase>> \o MulLimb(Tail(a), k, prod \div LimbBase)

RECURSIVE MulN(_, _)
MulN(a, b) ==
    IF b = <<>> THEN <<>>
    ELSE LET high == MulN(a, Tail(b))
         IN AddN(Trim(MulLimb(a, Head(b), 0)),
                 IF high = <<>> THEN <<>> ELSE <<0>> \o high)

\* the low 64 bits of a number
Low64(a) ==
    Trim([i \in 1..(IF Len(a) < 5 THEN Len(a) ELSE 5) |->
              IF i = 5 THEN a[i] % 16 ELSE a[i]])

\* two's complement negation of a 64-bit pattern
Neg64(u) ==
    Low64(AddN([i \in 1..5 |-> (IF i = 5 THEN 15 ELSE LimbBase - 1)
                               - (IF i <= Len(u) THEN u[i] ELSE 0)],
               <<1>>))

\* the sign bit of a 64-bit pattern
SignBit(u) == Len(u) = 5 /\ u[5] >= 8

\* an int64 as sign and magnitude, and its bit pattern
Int64(neg, mag) == [neg |-> neg /\ mag # <<>>, mag |-> mag]

ToBits(v) == IF v.neg THEN Neg64(Low64(v.mag)) ELSE Low64(v.mag)

FromBits(u) == IF SignBit(u) THEN Int64(TRUE, Neg64(u)) ELSE Int64(FALSE, u)

\* the values an int64 holds: -2^63 .. 2^63 - 1
InInt64(v) ==
    /\ Low64(v.mag) = v.mag
    /\ SignBit(v.mag) => v.neg /\ v.mag = <<0, 0, 0, 0, 8>>

\* Go's x * y on int64: the low 64 bits of the product
Mul64(x, y) == FromBits(Low64(MulN(ToBits(x), ToBits(y))))

\* time.Second, a Duration of 10^9 nanoseconds
Second == Int64(FALSE, Limbs(10^9))

\* time.Second * time.Duration(n)
SecondsToDuration(n) == Mul64(Second, n)

\* the number written with the decimal groups of nine digits gs, most
\* significant first
RECURSIVE FromGroups(_, _)
FromGroups(acc, gs) ==
    IF gs = <<>> THEN acc
    ELSE FromGroups(AddN(MulN(acc, Limbs(10^9)), Limbs(Head(gs))), Tail(gs))

\* integers on the wire, by sign and decimal groups: small counts, the
\* neighbours of 2^31, of 2^63 / 10^9 = 9223372036.85.., of 2^64 / 10^9 and
\* of 2^63
WireInts ==
    { [neg |-> s, groups |-> <<a, b, d>>] :
          s \in BOOLEAN, a \in {0, 9, 18},
          b \in {0, 2, 9, 18, 223372036, 223372037, 446744073, 446744074},
          d \in {0, 5, 3600, 147483647, 223372036, 223372037, 446744074,
                 854775807, 854775808} }

ValueOf(w) == Int64(w.neg, FromGroups(<<>>, w.groups))

ZeroDuration == Int64(FALSE, <<>>)

\* encoding/json into an int64 field, then the conversion of the seconds:
\* a number outside int64 is a decode error and no duration is exposed
DecodeSeconds(w) ==
    IF InInt64(ValueOf(w))
    THEN [failed |-> FALSE, d |-> SecondsToDuration(ValueOf(w))]
    ELSE [failed |-> TRUE, d |-> ZeroDuration]

DurationCall(op, w) ==
    call' = [op |-> op, n |-> w, out |-> DecodeSeconds(w)]

\* twoleg.GenerateToken: Expires from expires_in
twoleg_ExpiresAct ==
    /\ call = NoCall
    /\ \E w \in WireInts : DurationCall("twoleg.Expires", w)

\* threeleg.GenerateToken: Expires from expires_in
threeleg_ExpiresAct ==
    /\ call = NoCall
    /\ \E w \in WireInts : DurationCall("threeleg.Expires", w)

\* newCancelRideError: TokenDuration from token_duration
CancelRide_TokenDurationAct ==
    /\ call = NoCall
    /\ \E w \in WireInts : DurationCall("CancelRideError.TokenDuration", w)

NextDuration ==
    \/ twoleg_ExpiresAct /\ UNCHANGED <<clientVars, errVars>>
    \/ threeleg_ExpiresAct /\ UNCHANGED <<clientVars, errVars>>
    \/ CancelRide_TokenDurationAct /\ UNCHANGED <<clientVars, errVars>>

SpecDuration == InitErrOnly /\ [][NextDuration]_vars

DurationOps ==
    {"twoleg.Expires", "threeleg.Expires", "CancelRideError.TokenDuration"}

\* n seconds as a count of nanoseconds, in unbounded arithmetic
ExactSeconds(v) == Int64(v.neg, MulN(v.mag, Limbs(10^9)))

\* C28: for every integer n that the decoder accepts as an int64 count of
\* seconds, the duration exposed is exactly n * 10^9 nanoseconds: the
\* multiplication neither wraps around nor changes the sign.
C28_DurationIsExactlySeconds ==
    (call.op \in DurationOps /\ ~call.out.failed) =>
        /\ call.out.d = ExactSeconds(ValueOf(call.n))
        /\ call.out.d.neg = ValueOf(call.n).neg

====
